---- MODULE Spec2Model ----
(***************************************************************************)
(* astrocube.DataCube: construction from a FITS HDU (header validation,    *)
(* WCS axis classification, transposition to [RA, DEC, VEL]) and the       *)
(* iterative MAD noise estimate of calc_noise_dev.                         *)
(*                                                                         *)
(* Numbers.  Data values are integers; NaN is a distinguished value that   *)
(* every arithmetic operator and comparison treats as numpy does (NaN      *)
(* propagates through arithmetic, every comparison with NaN is false).     *)
(* A median of an even count is the mean of the two middle values, so      *)
(* _mad works on exact rationals: a noise value n stands for the rational  *)
(* n / NoiseDen.  Floating-point rounding is not modelled; with the value  *)
(* sets used here no comparison is decided by rounding.                    *)
(*                                                                         *)
(* Arrays are records [tag |-> "array", shape |-> <<..>>, v |-> f] with f  *)
(* a function on 0-based index tuples; Python's None and an attribute      *)
(* that was never assigned are the records None and Unset.                 *)
(***************************************************************************)
EXTENDS Integers, Sequences, FiniteSets, TLC

VARIABLES
    hdu,            \* the HDU handed to the constructor: header + data
    calc_noise_dev, \* the constructor's argument calc_noise_dev, until the constructor is left
    pc,             \* "new", "loop" (in calc_noise_dev's for loop), "done", "idle", "failed"
    header,         \* self._header
    object_name,    \* self.object_name
    line_name,      \* self.line_name
    wcs,            \* self._wcs
    index_ra,       \* self._index_ra
    index_dec,      \* self._index_dec
    index_vel,      \* self._index_vel
    data,           \* self.data
    noise_dev,      \* self.noise_dev
    noise_dev_xy,   \* self.noise_dev_xy
    noise_dev_z,    \* self.noise_dev_z
    args,           \* arguments of the calc_noise_dev call in progress / last made
    data_cropped,   \* calc_noise_dev's local working array
    owner,          \* the object data_cropped is bound to: "self.data", "private", "none"
    iter,           \* the loop variable "_" of calc_noise_dev's for loop
    caller,         \* "init" when calc_noise_dev runs inside __init__, else "user"
    pre,            \* history: noise_dev, noise_dev_xy when the call in progress began
    seed_xy,        \* history: the estimate of line 90 of the call in progress
    passes,         \* history: number of loop bodies begun in the call in progress
    outcome,        \* history: how the last finished call ended
    query,          \* arguments of the coordinate call just made
    result,         \* what the coordinate call just made returned
    xform,          \* history: the pixel vectors handed to the WCS transform in that call
    view,           \* the CubeViewWidget shown for the cube, once constructed
    vcall,          \* history: the last operation or event of the view and how it ended
    float_index,    \* whether the numpy the view runs with accepts a float as an array index
    console,        \* the PythonCommandWidget of the viewer, once constructed
    sys_stdout,     \* the object sys.stdout is bound to
    ccall,          \* history: the last event of the console and how it ended
    trip,           \* history: the walk through the command history in progress
    highlighter,    \* the _Highlighter created for the view, once created
    mask,           \* the array the caller handed to highlight(), as the caller sees it
    passed,         \* history: the values of that array when it was handed over
    hcall           \* history: the last call that reached the highlighter and how it ended

vars == <<hdu, calc_noise_dev, pc, header, object_name, line_name, wcs, index_ra, index_dec,
          index_vel, data, noise_dev, noise_dev_xy, noise_dev_z, args,
          data_cropped, owner, iter, caller, pre, seed_xy, passes, outcome,
          query, result, xform, view, vcall, float_index,
          console, sys_stdout, ccall, trip, highlighter, mask, passed, hcall>>

queryVars == <<query, result, xform>>

guiVars == <<view, vcall, float_index>>

consoleVars == <<console, sys_stdout, ccall, trip>>

highlightVars == <<highlighter, mask, passed, hcall>>

----------------------------------------------------------------------------
(* Values                                                                  *)

NaN == -999999
None == [tag |-> "None"]
Unset == [tag |-> "unset"]

(* A string or integer held by an attribute                                *)
StrV(s) == [tag |-> "str", s |-> s]
IntV(n) == [tag |-> "int", n |-> n]

isnan(x) == x = NaN

IsArray(a) == a.tag = "array"

Abs(n) == IF n < 0 THEN -n ELSE n

----------------------------------------------------------------------------
(* numpy arrays                                                            *)

Idx3(shape) ==
    {<<i, j, k>> : i \in 0..(shape[1] - 1), j \in 0..(shape[2] - 1),
                   k \in 0..(shape[3] - 1)}

Idx2(shape) == {<<i, j>> : i \in 0..(shape[1] - 1), j \in 0..(shape[2] - 1)}

(* numpy computes every element of an array when the array is built; the   *)
(* comparison makes TLC evaluate it the same way (eager(f) is f).          *)
eager(f) == IF f = f THEN f ELSE f

Array3(shape, f(_)) ==
    [tag |-> "array", shape |-> shape, v |-> eager([ix \in Idx3(shape) |-> f(ix)])]

Array2(shape, f(_)) ==
    [tag |-> "array", shape |-> shape, v |-> eager([ix \in Idx2(shape) |-> f(ix)])]

(* a.transpose(axes): axis n of the result is axis axes[n] of a.  numpy    *)
(* raises ValueError unless axes is a permutation of (0, 1, 2).            *)
TransposeOk(axes) == {axes[n] : n \in 1..3} = {0, 1, 2}

transpose(a, axes) ==
    LET shape == [n \in 1..3 |-> a.shape[axes[n] + 1]]
        src(ix) == [m \in 1..3 |-> ix[CHOOSE n \in 1..3 : axes[n] + 1 = m]]
    IN  Array3(shape, LAMBDA ix : a.v[src(ix)])

(* np.expand_dims(a2, 2): shape (X, Y) becomes (X, Y, 1).                  *)
expand_dims(a2) ==
    Array3(<<a2.shape[1], a2.shape[2], 1>>, LAMBDA ix : a2.v[<<ix[1], ix[2]>>])

(* np.expand_dims(a2, 2) * np.ones(n): broadcast to shape (X, Y, n);       *)
(* x * 1.0 = x, NaN * 1.0 = NaN.                                           *)
expand_times_ones(a2, n) ==
    Array3(<<a2.shape[1], a2.shape[2], n>>, LAMBDA ix : a2.v[<<ix[1], ix[2]>>])

(* Element of a (X, Y, 1) or (X, Y, Z) array that numpy broadcasting pairs *)
(* with element ix of a (X, Y, Z) array.                                   *)
Broadcast(a, ix) == a.v[<<ix[1], ix[2], IF a.shape[3] = 1 THEN 0 ELSE ix[3]>>]

(* a[:, :, z0:] for 0 <= z0 < Z, a[x0:, :, :] and a[:, y0:, :]             *)
SliceZ(a, z0) ==
    Array3(<<a.shape[1], a.shape[2], a.shape[3] - z0>>,
           LAMBDA ix : a.v[<<ix[1], ix[2], ix[3] + z0>>])

SliceX(a, x0) ==
    Array3(<<a.shape[1] - x0, a.shape[2], a.shape[3]>>,
           LAMBDA ix : a.v[<<ix[1] + x0, ix[2], ix[3]>>])

SliceY(a, y0) ==
    Array3(<<a.shape[1], a.shape[2] - y0, a.shape[3]>>,
           LAMBDA ix : a.v[<<ix[1], ix[2] + y0, ix[3]>>])

----------------------------------------------------------------------------
(* scipy.stats.nanmedian and _mad                                          *)

ScaleNum == 10000
ScaleDen == 6745
NoiseDen == 4 * ScaleDen

nanmedian2_LowerMiddle(f) ==
    LET S == {d \in DOMAIN f : ~isnan(f[d])}
        n == Cardinality(S)
        Kth(k) == CHOOSE v \in {f[d] : d \in S} :
                      /\ Cardinality({d \in S : f[d] < v}) < k
                      /\ Cardinality({d \in S : f[d] <= v}) >= k
    IN  IF n = 0 THEN NaN ELSE 2 * Kth((n + 1) \div 2)

(* Twice the median of the non-NaN values of f (a function with a finite   *)
(* domain); NaN when every value is NaN.  For an even count the median is  *)
(* the mean of the two middle values, so twice the median is their sum.    *)
nanmedian2(f) ==
    LET S == {d \in DOMAIN f : ~isnan(f[d])}
        n == Cardinality(S)
        Kth(k) == CHOOSE v \in {f[d] : d \in S} :
                      /\ Cardinality({d \in S : f[d] < v}) < k
                      /\ Cardinality({d \in S : f[d] <= v}) >= k
    IN  IF n = 0 THEN NaN
        ELSE IF n % 2 = 1 THEN 2 * Kth((n + 1) \div 2)
        ELSE Kth(n \div 2) + Kth(n \div 2 + 1)

nanmedian2_axis2_Flat(a) ==
    Array2(<<a.shape[1], a.shape[2]>>, LAMBDA p : nanmedian2(a.v))

(* scipy.stats.nanmedian(a, axis=2), doubled: a 2-D array.                 *)
nanmedian2_axis2(a) ==
    Array2(<<a.shape[1], a.shape[2]>>,
           LAMBDA p : nanmedian2([k \in 0..(a.shape[3] - 1) |-> a.v[<<p[1], p[2], k>>]]))

(* scipy.stats.nanmedian(a.reshape(-1, Z), axis=0), doubled: one value per *)
(* channel, pooled over every spatial pixel.                               *)
nanmedian2_pooled(a) ==
    [k \in 0..(a.shape[3] - 1) |->
        nanmedian2([p \in Idx2(a.shape) |-> a.v[<<p[1], p[2], k>>]])]

(* np.fabs(2*x - m2): NaN when either operand is NaN.                      *)
fabs_diff2(x, m2) == IF isnan(x) \/ isnan(m2) THEN NaN ELSE Abs(2 * x - m2)

times_scale(m4) == IF isnan(m4) THEN NaN ELSE m4 * ScaleNum

(* _mad(a, axis=2).  medians holds 2*median; the deviations are taken in   *)
(* halves, their doubled median is 4*MAD, and the result 4*MAD*ScaleNum    *)
(* stands for MAD * (1/0.6745) = result / NoiseDen.                        *)
mad(a) ==
    LET medians == nanmedian2_axis2(a)
        dev == Array3(a.shape, LAMBDA ix : fabs_diff2(a.v[ix], medians.v[<<ix[1], ix[2]>>]))
        m4 == nanmedian2_axis2(dev)
    IN  Array2(m4.shape, LAMBDA p : times_scale(m4.v[p]))

(* _mad(a.reshape(-1, Z), axis=0): a 1-D array over the channels.          *)
mad_pooled(a) ==
    LET medians == nanmedian2_pooled(a)
        dev == Array3(a.shape, LAMBDA ix : fabs_diff2(a.v[ix], medians[ix[3]]))
        m4 == nanmedian2_pooled(dev)
    IN  [tag |-> "array", shape |-> <<a.shape[3]>>,
         v |-> [k \in 0..(a.shape[3] - 1) |-> times_scale(m4[k])]]

GreaterThan_Abs(x, signal_threshold, n) ==
    /\ ~isnan(x)
    /\ ~isnan(n)
    /\ Abs(x) * NoiseDen > signal_threshold * n

(* x > signal_threshold * n for a data value x and a noise value n.        *)
GreaterThan(x, signal_threshold, n) ==
    /\ ~isnan(x)
    /\ ~isnan(n)
    /\ x * NoiseDen > signal_threshold * n

(* data_cropped[data_cropped > signal_threshold*noise_dev] = np.nan        *)
clip(a, signal_threshold, nd) ==
    Array3(a.shape,
           LAMBDA ix : IF GreaterThan(a.v[ix], signal_threshold, Broadcast(nd, ix))
                       THEN NaN ELSE a.v[ix])

----------------------------------------------------------------------------
(* The HDUs offered to the constructor                                     *)

MaxIter == 3

(* NAXIS1, NAXIS2, NAXIS3 of the file; hdu.data has the reversed shape.    *)
FitsShape == <<2, 1, 3>>

(* Spectra along FITS axis 3 from which the input cubes are assembled.     *)
Profiles == { <<NaN, NaN, NaN>>, <<3, 3, 3>>, <<-8, 1, 3>>, <<1, NaN, 3>> }

(* hdu.data[k3, k2, k1] is the file's value at FITS pixel (k1, k2, k3).    *)
RawArrays ==
    { Array3(<<FitsShape[3], FitsShape[2], FitsShape[1]>>,
             LAMBDA ix : prof[ix[3] + 1][ix[1] + 1]) :
        prof \in [1..FitsShape[1] -> Profiles] }

RequiredKeys == {"OBJECT", "LINENAME", "NAXIS"}

KeySets == {RequiredKeys} \cup {RequiredKeys \ {k} : k \in RequiredKeys}

(* CTYPE1..CTYPE3: every order of an equatorial cube, a galactic cube, a   *)
(* cube with swapped celestial types and a cube without a spectral axis.   *)
CTypes ==
    { c \in [1..3 -> {"RA", "DEC", "VELO"}] : {c[n] : n \in 1..3} = {"RA", "DEC", "VELO"} }
    \cup { <<"GLON", "GLAT", "VELO">>, <<"RA", "GLAT", "VELO">>, <<"RA", "DEC", "STOKES">> }

Headers ==
    [keys : KeySets, NAXIS : {2, 3}, OBJECT : {"M42"}, LINENAME : {"CO"}, CTYPE : CTypes]

HDUs == [header : Headers, data : RawArrays]

(* pywcs.WCS(header).wcs: the 0-based index of the longitude, latitude and *)
(* spectral axis (-1 when the header has none) and the celestial types.    *)
AxisOf(ctype, kinds) ==
    IF \E n \in 1..3 : ctype[n] \in kinds
    THEN (CHOOSE n \in 1..3 : ctype[n] \in kinds) - 1
    ELSE -1

TypeOf(ctype, kinds) ==
    IF \E n \in 1..3 : ctype[n] \in kinds
    THEN ctype[CHOOSE n \in 1..3 : ctype[n] \in kinds]
    ELSE ""

WCS(h) ==
    [tag    |-> "WCS",
     lng    |-> AxisOf(h.CTYPE, {"RA", "GLON"}),
     lat    |-> AxisOf(h.CTYPE, {"DEC", "GLAT"}),
     spec   |-> AxisOf(h.CTYPE, {"VELO"}),
     lngtyp |-> TypeOf(h.CTYPE, {"RA", "GLON"}),
     lattyp |-> TypeOf(h.CTYPE, {"DEC", "GLAT"})]

----------------------------------------------------------------------------
(* DataCube.__init__                                                       *)

(* set(("OBJECT","LINENAME","NAXIS")) <= set(header.keys())                *)
(*     and header["NAXIS"] == 3                                            *)
HeaderValid_NoLinename(h) == {"OBJECT", "NAXIS"} \subseteq h.keys /\ h.NAXIS = 3

HeaderValid(h) == RequiredKeys \subseteq h.keys /\ h.NAXIS = 3

last_axis == 2

(* assert(self._wcs.wcs.lngtyp == 'RA')                                   *)
(* assert(self._wcs.wcs.lattyp == 'DEC')                                   *)
AxisTypesOk_LngOnly(w) == w.lngtyp = "RA"

AxisTypesOk(w) == w.lngtyp = "RA" /\ w.lattyp = "DEC"

TransposeAxes_Mod(w) ==
    <<(last_axis - w.lng) % 3, (last_axis - w.lat) % 3, (last_axis - w.spec) % 3>>

TransposeAxes_NoReverse(w) == <<w.lng, w.lat, w.spec>>

TransposeAxes(w) == <<last_axis - w.lng, last_axis - w.lat, last_axis - w.spec>>

DefaultArgs_OneIter ==
    [iterations |-> 1, signal_threshold |-> 4, noise_slice_z |-> None,
     compute_spectral_variation |-> FALSE]

DefaultArgs ==
    [iterations |-> 3, signal_threshold |-> 4, noise_slice_z |-> None,
     compute_spectral_variation |-> FALSE]

NoCall == [tag |-> "none"]

Init ==
    /\ hdu \in HDUs
    /\ calc_noise_dev \in BOOLEAN
    /\ pc = "new"
    /\ header = Unset
    /\ object_name = Unset
    /\ line_name = Unset
    /\ wcs = Unset
    /\ index_ra = Unset
    /\ index_dec = Unset
    /\ index_vel = Unset
    /\ data = Unset
    /\ noise_dev = Unset
    /\ noise_dev_xy = Unset
    /\ noise_dev_z = Unset
    /\ args = NoCall
    /\ data_cropped = Unset
    /\ owner = "none"
    /\ iter = 0
    /\ caller = "none"
    /\ pre = NoCall
    /\ seed_xy = Unset
    /\ passes = 0
    /\ outcome = "none"
    /\ query = NoCall
    /\ result = Unset
    /\ xform = <<>>
    /\ view = Unset
    /\ vcall = NoCall
    /\ float_index = Unset
    /\ console = Unset
    /\ sys_stdout = "sys.__stdout__"
    /\ ccall = NoCall
    /\ trip = NoCall
    /\ highlighter = Unset
    /\ mask = Unset
    /\ passed = Unset
    /\ hcall = NoCall

----------------------------------------------------------------------------
(* DataCube.calc_noise_dev                                                 *)

SignalThresholds == {1, 4}

(* Seed slices a caller can pass: none, cube.data[:,:,z0:], and two slices *)
(* whose spatial shape differs from the cube's.                            *)
SeedSlices(d) ==
    {None} \cup {SliceZ(d, z0) : z0 \in 1..(d.shape[3] - 1)}
           \cup {SliceX(d, 1), SliceY(d, 1)}

ArgSets(d) ==
    [iterations : 0..MaxIter, signal_threshold : SignalThresholds,
     noise_slice_z : SeedSlices(d), compute_spectral_variation : BOOLEAN]

(* noise_slice_z.shape[0] != self.data.shape[0]                            *)
(*     or noise_slice_z.shape[1] != self.data.shape[1]                     *)
ShapeMismatch_FirstAxisOnly(slice, d) == slice.shape[1] # d.shape[1]

ShapeMismatch(slice, d) ==
    slice.shape[1] # d.shape[1] \/ slice.shape[2] # d.shape[2]

(* data_cropped = self.data.copy(), line 95: the working array is a fresh  *)
(* object.  (Lines 83 and 87 bind data_cropped to self.data and to a copy  *)
(* of noise_slice_z; nothing is written through either binding before     *)
(* line 95 rebinds the name.)                                              *)
WorkingOwner_Alias == "self.data"

WorkingOwner == "private"

(* self.noise_dev = np.expand_dims(self.noise_dev_xy, 2), line 94: the     *)
(* first pass clips against the seed estimate xy just computed, not        *)
(* against old, the noise_dev the cube held when the call began.           *)
SeedNoiseDev_Stale(xy, old) == IF IsArray(old) THEN old ELSE expand_dims(xy)

SeedNoiseDev(xy, old) == expand_dims(xy)

Refines_AtLeastOne(iterations) == iterations >= 1

(* iterations > 1                                                          *)
Refines(iterations) == iterations > 1

(* Lines 82-95 and 114-115: validation of the seed slice, the seed         *)
(* estimate, and either the entry into the refinement loop or the final    *)
(* broadcast.  d is self.data, a the arguments, who the caller.            *)
calc_enter(d, a, who) ==
    /\ args' = a
    /\ caller' = who
    /\ pre' = [noise_dev |-> noise_dev, noise_dev_xy |-> noise_dev_xy]
    /\ passes' = 0
    /\ UNCHANGED noise_dev_z
    /\ IF a.noise_slice_z # None /\ ShapeMismatch(a.noise_slice_z, d)
       THEN /\ outcome' = "Exception: Invalid argument"
            /\ pc' = "done"
            /\ seed_xy' = Unset
            /\ data_cropped' = Unset
            /\ owner' = "none"
            /\ iter' = 0
            /\ UNCHANGED <<noise_dev, noise_dev_xy>>
       ELSE LET seed == IF a.noise_slice_z = None THEN d ELSE a.noise_slice_z
                xy == mad(seed)
            IN  /\ noise_dev_xy' = xy
                /\ seed_xy' = xy
                /\ IF Refines(a.iterations)
                   THEN /\ noise_dev' = SeedNoiseDev(xy, noise_dev)
                        /\ data_cropped' = d
                        /\ owner' = WorkingOwner
                        /\ iter' = 1
                        /\ pc' = "loop"
                        /\ outcome' = "running"
                   ELSE /\ noise_dev' = expand_times_ones(xy, d.shape[3])
                        /\ data_cropped' = Unset
                        /\ owner' = "none"
                        /\ iter' = 0
                        /\ pc' = "done"
                        /\ outcome' = "returned"

(* cube.calc_noise_dev(...) called on a constructed cube.                  *)
CalcNoiseDev ==
    /\ UNCHANGED <<guiVars, consoleVars, highlightVars>>
    /\ pc = "idle"
    /\ \E a \in ArgSets(data) : calc_enter(data, a, "user")
    /\ UNCHANGED <<hdu, calc_noise_dev, header, object_name, line_name, wcs, index_ra,
                   index_dec, index_vel, data, queryVars>>

(* The array line 97 clips in a pass: the working array dc as the passes   *)
(* before left it, line 95 being outside the loop; not d, self.data.       *)
working_copy_Fresh(dc, d) == d

working_copy(dc, d) == dc

(* One body of "for _ in range(1, iterations)", lines 96-113.  The         *)
(* assignment of line 97 is in place: it changes the object data_cropped   *)
(* is bound to, which is self.data itself when the two are aliased.        *)
LoopBody ==
    /\ UNCHANGED <<guiVars, consoleVars, highlightVars>>
    /\ pc = "loop"
    /\ iter < args.iterations
    /\ LET clipped == clip(working_copy(data_cropped, data), args.signal_threshold, noise_dev)
           xy == mad(clipped)
       IN  /\ noise_dev_xy' = xy
           /\ passes' = passes + 1
           /\ IF args.compute_spectral_variation
              THEN /\ noise_dev_z' = mad_pooled(clipped)
                   /\ outcome' = "Exception: not implemented"
                   /\ pc' = "done"
                   /\ data_cropped' = Unset
                   /\ owner' = "none"
                   /\ iter' = 0
                   /\ UNCHANGED noise_dev
              ELSE /\ noise_dev' = expand_times_ones(xy, data.shape[3])
                   /\ data_cropped' = clipped
                   /\ UNCHANGED owner
                   /\ iter' = iter + 1
                   /\ UNCHANGED <<noise_dev_z, outcome, pc>>
           /\ data' = IF owner = "self.data" THEN clipped ELSE data
    /\ UNCHANGED <<hdu, calc_noise_dev, header, object_name, line_name, wcs, index_ra,
                   index_dec, index_vel, args, caller, pre, seed_xy, queryVars>>

(* The for loop is exhausted: calc_noise_dev returns.                      *)
LoopExit ==
    /\ UNCHANGED <<guiVars, consoleVars, highlightVars>>
    /\ pc = "loop"
    /\ iter >= args.iterations
    /\ pc' = "done"
    /\ outcome' = "returned"
    /\ data_cropped' = Unset
    /\ owner' = "none"
    /\ iter' = 0
    /\ UNCHANGED <<hdu, calc_noise_dev, header, object_name, line_name, wcs, index_ra,
                   index_dec, index_vel, data, noise_dev, noise_dev_xy,
                   noise_dev_z, args, caller, pre, seed_xy, passes, queryVars>>

(* DataCube(hdu, calc_noise_dev), lines 35-58.                             *)
Construct ==
    /\ UNCHANGED <<guiVars, consoleVars, highlightVars>>
    /\ pc = "new"
    /\ header' = hdu.header
    /\ UNCHANGED <<hdu, calc_noise_dev, queryVars>>
    /\ IF ~HeaderValid(hdu.header)
       THEN /\ pc' = "failed"
            /\ outcome' = "Exception: not a valid data cube"
            /\ UNCHANGED <<object_name, line_name, wcs, index_ra, index_dec,
                           index_vel, data, noise_dev, noise_dev_xy,
                           noise_dev_z, args, data_cropped, owner, iter, caller,
                           pre, seed_xy, passes>>
       ELSE
       /\ object_name' = StrV(hdu.header.OBJECT)
       /\ line_name' = StrV(hdu.header.LINENAME)
       /\ wcs' = WCS(hdu.header)
       /\ IF ~AxisTypesOk(wcs')
          THEN /\ pc' = "failed"
               /\ outcome' = "AssertionError"
               /\ UNCHANGED <<index_ra, index_dec, index_vel, data, noise_dev,
                              noise_dev_xy, noise_dev_z, args, data_cropped, owner,
                              iter, caller, pre, seed_xy, passes>>
          ELSE
          /\ index_ra' = IntV(wcs'.lng)
          /\ index_dec' = IntV(wcs'.lat)
          /\ index_vel' = IntV(wcs'.spec)
          /\ IF ~TransposeOk(TransposeAxes(wcs'))
             THEN /\ pc' = "failed"
                  /\ outcome' = "ValueError"
                  /\ UNCHANGED <<data, noise_dev, noise_dev_xy, noise_dev_z,
                                 args, data_cropped, owner, iter, caller, pre,
                                 seed_xy, passes>>
             ELSE
             /\ data' = transpose(hdu.data, TransposeAxes(wcs'))
             /\ IF calc_noise_dev
                  THEN calc_enter(data', DefaultArgs, "init")
                  ELSE /\ noise_dev' = None
                       /\ noise_dev_xy' = None
                       /\ pc' = "done"
                       /\ outcome' = "returned"
                       /\ caller' = "init"
                       /\ UNCHANGED <<noise_dev_z, args, data_cropped, owner, iter,
                                      pre, seed_xy, passes>>

(* Control is back with the caller of DataCube(...), calc_noise_dev(...)   *)
(* or a coordinate function: the finished call's arguments, locals and     *)
(* return value are gone, the cube's attributes stay as the call left      *)
(* them.                                                                   *)
Return ==
    /\ UNCHANGED <<guiVars, consoleVars, highlightVars>>
    /\ pc = "done"
    /\ pc' = "idle"
    /\ args' = NoCall
    /\ pre' = NoCall
    /\ seed_xy' = Unset
    /\ passes' = 0
    /\ caller' = "none"
    /\ outcome' = "none"
    /\ query' = NoCall
    /\ result' = Unset
    /\ xform' = <<>>
    /\ calc_noise_dev' = Unset
    /\ UNCHANGED <<hdu, header, object_name, line_name, wcs, index_ra,
                   index_dec, index_vel, data, noise_dev, noise_dev_xy,
                   noise_dev_z, data_cropped, owner, iter>>

Next == Construct \/ CalcNoiseDev \/ LoopBody \/ LoopExit \/ Return

Spec == Init /\ [][Next]_vars

----------------------------------------------------------------------------
(* Sky coordinates: _deg2hms, _deg2dms and the formatting of numbers       *)
(*                                                                         *)
(* Angles are exact rationals: an integer n stands for n / AngleDen        *)
(* degrees.  Velocities are integers in m/s as the transform returns them  *)
(* and integers n standing for n / KmsDen km/s once divided by 1000.       *)

AngleDen == 1200
KmsDen == 100

(* int(x) for x = n / den: truncation toward zero.                         *)
int_Nearest(n, den) ==
    IF n >= 0 THEN (2 * n + den) \div (2 * den) ELSE -((2 * (-n) + den) \div (2 * den))

int(n, den) == IF n >= 0 THEN n \div den ELSE -((-n) \div den)

(* x % 1 for x = n / den: Python's remainder takes the sign of the         *)
(* divisor, so the result lies in [0, 1) also when x is negative.          *)
mod1(n, den) == n % den

(* _deg2hms(deg), lines 193-198, for deg = n / AngleDen.  hours, arcmin    *)
(* and arcsec are held over the denominator 15 * AngleDen; the returned    *)
(* triple is <<int(hours), int(arcmin), arcsec>> with den the denominator  *)
(* of arcsec.                                                              *)
deg2hms(n) ==
    LET den == 15 * AngleDen
        hours == n
        arcmin == mod1(hours, den) * 60
        arcsec == mod1(arcmin, den) * 60
    IN  [a |-> int(hours, den), m |-> int(arcmin, den), s |-> arcsec, den |-> den]

(* _deg2dms(deg), lines 200-204, for deg = n / AngleDen.                   *)
deg2dms(n) ==
    LET den == AngleDen
        arcmin == mod1(n, den) * 60
        arcsec == mod1(arcmin, den) * 60
    IN  [a |-> int(n, den), m |-> int(arcmin, den), s |-> arcsec, den |-> den]

Pow10(k) == CASE k = 0 -> 1 [] k = 1 -> 10 [] k = 2 -> 100

(* "{0:.{decimals}f}".format(x) for x = n / den: x rounded to the nearest  *)
(* multiple of 10^-decimals, ties to even, as the count of such multiples. *)
fixed(n, den, decimals) ==
    LET mag == Abs(n)
        whole == mag \div den
        scaled == (mag % den) * Pow10(decimals)
        q == scaled \div den
        r == scaled % den
        up == 2 * r > den \/ (2 * r = den /\ q % 2 = 1)
        count == whole * Pow10(decimals) + q + (IF up THEN 1 ELSE 0)
    IN  IF n >= 0 THEN count ELSE -count

----------------------------------------------------------------------------
(* DataCube.point_coords, DataCube.point_coords_str                        *)

(* self._wcs.all_pix2sky(pixel, 0): one world coordinate per axis of the   *)
(* file, in the file's axis order.  The transform is taken to be linear    *)
(* and separable: the value at pixel 0 plus a step per pixel, in degrees   *)
(* (over AngleDen) on the celestial axes and in m/s on the spectral axis.  *)
SkyRef == [lng |-> 100359, lat |-> -900, spec |-> 5000]
SkyStep == [lng |-> -600, lat |-> 600, spec |-> 1250]

all_pix2sky(w, pixel) ==
    [k \in 0..2 |->
        IF k = w.lng THEN SkyRef.lng + SkyStep.lng * pixel[k]
        ELSE IF k = w.lat THEN SkyRef.lat + SkyStep.lat * pixel[k]
        ELSE SkyRef.spec + SkyStep.spec * pixel[k]]

(* raw_coord = [0,0,0]; raw_coord[self._index_ra] = x;                     *)
(* raw_coord[self._index_dec] = y; raw_coord[self._index_vel] = z          *)
RawCoord_Canonical(x, y, z) == [k \in 0..2 |-> <<x, y, z>>[k + 1]]

RawCoord(x, y, z) ==
    [k \in 0..2 |->
        IF k = index_vel.n THEN z
        ELSE IF k = index_dec.n THEN y
        ELSE IF k = index_ra.n THEN x
        ELSE 0]

(* v / 1000 for v in m/s, as a count of 1/KmsDen km/s.                     *)
kms(v) == (v * KmsDen) \div 1000

(* The tuple point_coords(x, y, z) returns, line 142.                      *)
point_coords(x, y, z) ==
    LET sky == all_pix2sky(wcs, RawCoord(x, y, z))
    IN  [tag |-> "tuple", ra |-> sky[index_ra.n], dec |-> sky[index_dec.n],
         vel |-> kms(sky[index_vel.n])]

(* Pixel coordinates and formats a caller passes; point_coords does not    *)
(* check the pixel against the cube's shape.                               *)
PixelX == {0, 1}
PixelY == {-9, 0, 1, 2}
PixelZ == {0, 3}
Formats == {"deg", "hms", "dms", "rad"}
Decimals == {0, 2}

(* cube.point_coords(x, y, z), lines 130-142.                              *)
PointCoords ==
    /\ UNCHANGED <<guiVars, consoleVars, highlightVars>>
    /\ pc = "idle"
    /\ \E x \in PixelX, y \in PixelY, z \in PixelZ :
          /\ query' = [op |-> "point_coords", x |-> x, y |-> y, z |-> z]
          /\ xform' = <<RawCoord(x, y, z)>>
          /\ result' = point_coords(x, y, z)
    /\ pc' = "done"
    /\ caller' = "user"
    /\ outcome' = "returned"
    /\ UNCHANGED <<hdu, calc_noise_dev, header, object_name, line_name, wcs, index_ra,
                   index_dec, index_vel, data, noise_dev, noise_dev_xy,
                   noise_dev_z, args, data_cropped, owner, iter, pre,
                   seed_xy, passes>>

valid_formats == {"deg", "hms", "dms"}

(* ra_fmt in valid_formats and dec_fmt in valid_formats, line 156          *)
FormatsValid_RaOnly(ra_fmt, dec_fmt) == ra_fmt \in valid_formats

FormatsValid(ra_fmt, dec_fmt) ==
    ra_fmt \in valid_formats /\ dec_fmt \in valid_formats

(* The string built for an angle of n / AngleDen degrees, lines 160-167    *)
(* and 170-177: the format's literal text and the values put in its        *)
(* fields, the fractional field rounded to the given number of decimals.   *)
(* A format that matches no branch leaves the name unbound.                *)
angle_str(n, fmt, decimals) ==
    CASE fmt = "deg" ->
            [text |-> "{0}<degree sign>", a |-> 0, m |-> 0,
             s |-> fixed(n, AngleDen, decimals), decimals |-> decimals]
      [] fmt = "hms" ->
            LET t == deg2hms(n)
            IN  [text |-> "{h}h {m}m {s}s", a |-> t.a, m |-> t.m,
                 s |-> fixed(t.s, t.den, decimals), decimals |-> decimals]
      [] fmt = "dms" ->
            LET t == deg2dms(n)
            IN  [text |-> "{d}<degree sign> {m}' {s}''", a |-> t.a, m |-> t.m,
                 s |-> fixed(t.s, t.den, decimals), decimals |-> decimals]
      [] OTHER -> Unset

(* "{0:.{decimals}f} km/s".format(coords[2]), line 179                     *)
vel_str(v, decimals) ==
    [text |-> "{0} km/s", a |-> 0, m |-> 0,
     s |-> fixed(v, KmsDen, decimals), decimals |-> decimals]

(* cube.point_coords_str(x, y, z, ra_fmt, dec_fmt, decimals), lines        *)
(* 143-180.                                                                *)
PointCoordsStr ==
    /\ UNCHANGED <<guiVars, consoleVars, highlightVars>>
    /\ pc = "idle"
    /\ \E x \in PixelX, y \in PixelY, z \in PixelZ,
          ra_fmt \in Formats, dec_fmt \in Formats, decimals \in Decimals :
          /\ query' = [op |-> "point_coords_str", x |-> x, y |-> y, z |-> z,
                       ra_fmt |-> ra_fmt, dec_fmt |-> dec_fmt,
                       decimals |-> decimals]
          /\ IF ~FormatsValid(ra_fmt, dec_fmt)
             THEN /\ outcome' = "AssertionError"
                  /\ result' = Unset
                  /\ xform' = <<>>
             ELSE LET coords == point_coords(x, y, z)
                  IN  /\ outcome' = "returned"
                      /\ xform' = <<RawCoord(x, y, z)>>
                      /\ result' = [tag |-> "tuple",
                                    ra_str |-> angle_str(coords.ra, ra_fmt, decimals),
                                    dec_str |-> angle_str(coords.dec, dec_fmt, decimals),
                                    vel_str |-> vel_str(coords.vel, decimals)]
    /\ pc' = "done"
    /\ caller' = "user"
    /\ UNCHANGED <<hdu, calc_noise_dev, header, object_name, line_name, wcs, index_ra,
                   index_dec, index_vel, data, noise_dev, noise_dev_xy,
                   noise_dev_z, args, data_cropped, owner, iter, pre,
                   seed_xy, passes>>

(* Decimal degrees handed to the module's helpers directly, over AngleDen: *)
(* -5.25, -5, -0.5, ..., 14.99917, 15, 83.6325, 359.99917.                 *)
Degrees ==
    {-6300, -6000, -600, -1, 0, 1, 600, 6300, 17999, 18000, 100359, 431999}

(* _deg2hms(deg) and _deg2dms(deg) called as functions of the module.      *)
Deg2Hms ==
    /\ UNCHANGED <<guiVars, consoleVars, highlightVars>>
    /\ pc = "idle"
    /\ \E n \in Degrees :
          /\ query' = [op |-> "_deg2hms", deg |-> n]
          /\ result' = deg2hms(n)
    /\ pc' = "done"
    /\ caller' = "user"
    /\ outcome' = "returned"
    /\ UNCHANGED <<hdu, calc_noise_dev, header, object_name, line_name, wcs, index_ra,
                   index_dec, index_vel, data, noise_dev, noise_dev_xy,
                   noise_dev_z, args, data_cropped, owner, iter, pre,
                   seed_xy, passes, xform>>

Deg2Dms ==
    /\ UNCHANGED <<guiVars, consoleVars, highlightVars>>
    /\ pc = "idle"
    /\ \E n \in Degrees :
          /\ query' = [op |-> "_deg2dms", deg |-> n]
          /\ result' = deg2dms(n)
    /\ pc' = "done"
    /\ caller' = "user"
    /\ outcome' = "returned"
    /\ UNCHANGED <<hdu, calc_noise_dev, header, object_name, line_name, wcs, index_ra,
                   index_dec, index_vel, data, noise_dev, noise_dev_xy,
                   noise_dev_z, args, data_cropped, owner, iter, pre,
                   seed_xy, passes, xform>>

(* cube.shape(), lines 127-129.                                            *)
Shape ==
    /\ UNCHANGED <<guiVars, consoleVars, highlightVars>>
    /\ pc = "idle"
    /\ query' = [op |-> "shape"]
    /\ result' = [tag |-> "tuple", shape |-> data.shape]
    /\ xform' = <<>>
    /\ pc' = "done"
    /\ caller' = "user"
    /\ outcome' = "returned"
    /\ UNCHANGED <<hdu, calc_noise_dev, header, object_name, line_name, wcs, index_ra,
                   index_dec, index_vel, data, noise_dev, noise_dev_xy,
                   noise_dev_z, args, data_cropped, owner, iter, pre,
                   seed_xy, passes>>

(* round(result, decimals) for result = v / KmsDen, as a count of          *)
(* 1/KmsDen: the nearest multiple of 10^-decimals.                         *)
round(v, decimals) == fixed(v, KmsDen, decimals) * (KmsDen \div Pow10(decimals))

VelocityDecimals == {-1, 0, 2}

(* cube.velocity_at(z, decimals), lines 181-190.                           *)
VelocityAt ==
    /\ UNCHANGED <<guiVars, consoleVars, highlightVars>>
    /\ pc = "idle"
    /\ \E z \in PixelZ, decimals \in VelocityDecimals :
          /\ query' = [op |-> "velocity_at", z |-> z, decimals |-> decimals]
          /\ xform' = <<RawCoord(0, 0, z)>>
          /\ LET res == point_coords(0, 0, z).vel
             IN  result' = IF decimals >= 0 THEN round(res, decimals) ELSE res
    /\ pc' = "done"
    /\ caller' = "user"
    /\ outcome' = "returned"
    /\ UNCHANGED <<hdu, calc_noise_dev, header, object_name, line_name, wcs, index_ra,
                   index_dec, index_vel, data, noise_dev, noise_dev_xy,
                   noise_dev_z, args, data_cropped, owner, iter, pre,
                   seed_xy, passes>>

(* scipy.stats.nanmean(a.ravel()): the sum and the number of the non-NaN   *)
(* values, standing for their quotient over NoiseDen; NaN when there is    *)
(* none.                                                                   *)
RECURSIVE SumOver(_, _)
SumOver(f, S) ==
    IF S = {} THEN 0
    ELSE LET i == CHOOSE i \in S : TRUE IN f[i] + SumOver(f, S \ {i})

nanmean(a) ==
    LET S == {i \in DOMAIN a.v : ~isnan(a.v[i])}
    IN  IF S = {} THEN [tag |-> "nan"]
        ELSE [tag |-> "mean", sum |-> SumOver(a.v, S), n |-> Cardinality(S)]

(* np.nanmin(self.data), np.nanmax(self.data): NaN for an all-NaN cube.    *)
nanmin(a) ==
    LET V == {a.v[i] : i \in DOMAIN a.v} \ {NaN}
    IN  IF V = {} THEN NaN ELSE CHOOSE m \in V : \A v \in V : m <= v

nanmax(a) ==
    LET V == {a.v[i] : i \in DOMAIN a.v} \ {NaN}
    IN  IF V = {} THEN NaN ELSE CHOOSE m \in V : \A v \in V : m >= v

(* The sigma __str__ reports, lines 118-121.                               *)
sigma_NoneAsNaN(nd) ==
    IF nd = None THEN [tag |-> "nan"] ELSE nanmean(nd)

sigma(nd) ==
    IF nd = None THEN [tag |-> "str", s |-> "not computed"] ELSE nanmean(nd)

(* str(cube), lines 117-125.  For an array, "self.noise_dev == None" is    *)
(* False under the numpy the program was written for and an elementwise    *)
(* array under later ones, whose truth value raises ValueError when it has *)
(* more than one element: elementwise ranges over the two.                 *)
Str ==
    /\ UNCHANGED <<guiVars, consoleVars, highlightVars>>
    /\ pc = "idle"
    /\ query' = [op |-> "__str__"]
    /\ xform' = <<>>
    /\ \E elementwise \in BOOLEAN :
          IF noise_dev # None /\ elementwise /\ Cardinality(DOMAIN noise_dev.v) > 1
          THEN /\ outcome' = "ValueError"
               /\ result' = Unset
          ELSE /\ outcome' = "returned"
               /\ result' = [tag |-> "str", ln |-> line_name.s, o |-> object_name.s,
                             shape |-> data.shape, dmin |-> nanmin(data),
                             dmax |-> nanmax(data), sigma |-> sigma(noise_dev)]
    /\ pc' = "done"
    /\ caller' = "user"
    /\ UNCHANGED <<hdu, calc_noise_dev, header, object_name, line_name, wcs, index_ra,
                   index_dec, index_vel, data, noise_dev, noise_dev_xy,
                   noise_dev_z, args, data_cropped, owner, iter, pre,
                   seed_xy, passes>>

(* The cubes the coordinate functions are exercised on: their results do   *)
(* not read data, so two files per header are enough.                      *)
QueryArrays ==
    {a \in RawArrays : \A i \in Idx3(a.shape) : a.v[i] \in {NaN, 3}}

InitQuery == Init /\ hdu.data \in QueryArrays

NextQuery ==
    \/ Construct \/ CalcNoiseDev \/ LoopBody \/ LoopExit \/ Return
    \/ PointCoords \/ PointCoordsStr \/ Deg2Hms \/ Deg2Dms
    \/ Shape \/ VelocityAt \/ Str

SpecQuery == InitQuery /\ [][NextQuery]_vars

----------------------------------------------------------------------------
(* CubeViewWidget (cubeview.py)                                            *)
(*                                                                         *)
(* A number is [t, n]: its Python type and its value in tenths.  The       *)
(* coordinates the view holds are whole numbers, of type int or float; the *)
(* last drawn coordinates are only ever compared with them, and are kept   *)
(* as their values.                                                        *)

IntC(k) == [t |-> "int", n |-> 10 * k]
FloatC(k) == [t |-> "float", n |-> 10 * k]
Whole(c) == c.n \div 10

(* round(x) of Python 2 for x = n / 10 >= 0: a float, halves away from     *)
(* zero.                                                                   *)
round_py2(n) == (n + 5) \div 10

(* type(value) is float and value >= 0 and value <= 1                      *)
IsFraction(value) == value.t = "float" /\ value.n >= 0 /\ value.n <= 10

(* int(value) raises for a value that is not a number.                     *)
IntRaises(value) == value.t \notin {"int", "float"}

(* The coordinate a setter stores for value on an axis of the given size,  *)
(* lines 86-91.                                                            *)
assign_NoWrap(value, size) ==
    IF IsFraction(value)
    THEN FloatC(round_py2((size - 1) * value.n))
    ELSE IntC(int(value.n, 10))

assign(value, size) ==
    IF IsFraction(value)
    THEN FloatC(round_py2((size - 1) * value.n))
    ELSE IntC(int(value.n, 10) % size)

(* d[c] raises IndexError: c is outside the axis, or c is a float and the  *)
(* numpy in use rejects float indices.                                     *)
IndexRaises(c, size) ==
    \/ Whole(c) < 0 \/ Whole(c) >= size
    \/ (c.t = "float" /\ ~float_index)

(* toolbar.update_mouseout_message(), lines 308-315, raises: it reads      *)
(* self.cube.data[x, y, z] at the view's coordinates.                      *)
MessageRaises(v, d) ==
    \/ IndexRaises(v.x, d.shape[1])
    \/ IndexRaises(v.y, d.shape[2])
    \/ IndexRaises(v.z, d.shape[3])

Clamp(k, lo, hi) == IF k < lo THEN lo ELSE IF k > hi THEN hi ELSE k

(* The x and y setters, lines 84-95 and 99-110.  The result is the view    *)
(* afterwards and the exception that leaves the setter, if any.            *)
set_xy(v, axis, value, d) ==
    IF ~IsFraction(value) /\ IntRaises(value)
    THEN [view |-> v, exc |-> "ValueError"]
    ELSE LET size == d.shape[IF axis = "x" THEN 1 ELSE 2]
             v1 == [v EXCEPT ![axis] = assign(value, size), !.needs_redraw = TRUE]
         IN  [view |-> v1, exc |-> IF MessageRaises(v1, d) THEN "IndexError" ELSE "none"]

(* The z setter, lines 114-128; scale.set_value, which clamps to the       *)
(* slider's range and emits value-changed when the value changes; and the  *)
(* handler of value-changed, _update_velocity, lines 159-161.  An          *)
(* exception in a signal handler is reported and does not reach the code   *)
(* that moved the slider.  No highlighter has been created.                *)
RECURSIVE set_z(_, _, _)
RECURSIVE scale_set_value(_, _, _)
RECURSIVE update_velocity(_, _)

set_z(v, value, d) ==
    IF ~IsFraction(value) /\ IntRaises(value)
    THEN [view |-> v, exc |-> "ValueError"]
    ELSE LET v1 == [v EXCEPT !.z = assign(value, d.shape[3]), !.needs_redraw = TRUE]
         IN  [view |-> IF 10 * v1.scale_value # v1.z.n
                       THEN scale_set_value(v1, Whole(v1.z), d)
                       ELSE v1,
              exc |-> "none"]

scale_set_value(v, k, d) ==
    LET new == Clamp(k, 0, v.scale_upper)
    IN  IF new = v.scale_value THEN v
        ELSE update_velocity([v EXCEPT !.scale_value = new], d)

update_velocity(v, d) == set_z(v, IntC(v.scale_value), d).view

(* _initialize_scale_element, lines 147-157: scale.set_range clamps the    *)
(* slider's value to the new range, emitting value-changed if it moves.    *)
initialize_scale_element(v, d) ==
    LET upper == d.shape[3] - 1
        v0 == [v EXCEPT !.scale_upper = upper]
        new == Clamp(v.scale_value, 0, upper)
    IN  IF new = v.scale_value THEN v0
        ELSE update_velocity([v0 EXCEPT !.scale_value = new], d)

(* last_drawn_z = -1, line 138                                             *)
invalidate(v) == [v EXCEPT !.last_drawn_z = -1]

(* update(), lines 130-145.  The tuple assignment of line 145 reads _x,    *)
(* _y, _z and then runs the three setters in turn; an exception in one     *)
(* leaves the later ones undone.                                           *)
update(v, d) ==
    LET v2 == invalidate(initialize_scale_element(v, d))
        rx == set_xy(v2, "x", v2.x, d)
        ry == set_xy(rx.view, "y", v2.y, d)
        rz == set_z(ry.view, v2.z, d)
    IN  IF rx.exc # "none" THEN rx
        ELSE IF ry.exc # "none" THEN ry
        ELSE rz

(* cube.data[:, :, z], the image handed to imgplot.set_data / imshow.      *)
image_of(d, k) ==
    [z |-> k, pixels |-> [p \in Idx2(d.shape) |-> d.v[<<p[1], p[2], k>>]]]

(* _check_redraw, lines 189-203.  The handler stays scheduled while it     *)
(* returns True; when it raises, the exception is reported and the idle    *)
(* source is removed.                                                      *)
check_redraw(v, d) ==
    IF ~v.needs_redraw THEN [view |-> v, exc |-> "none"]
    ELSE LET v1 == IF Whole(v.x) # v.last_drawn_x
                   THEN [v EXCEPT !.last_drawn_x = Whole(v.x)] ELSE v
             v2 == IF Whole(v1.y) # v1.last_drawn_y
                   THEN [v1 EXCEPT !.last_drawn_y = Whole(v1.y)] ELSE v1
         IN  IF Whole(v2.z) # v2.last_drawn_z
             THEN IF IndexRaises(v2.z, d.shape[3])
                  THEN [view |-> [v2 EXCEPT !.scheduled = FALSE], exc |-> "IndexError"]
                  ELSE [view |-> [v2 EXCEPT !.image = image_of(d, Whole(v2.z)),
                                            !.last_drawn_z = Whole(v2.z),
                                            !.needs_redraw = FALSE],
                        exc |-> "none"]
             ELSE [view |-> [v2 EXCEPT !.needs_redraw = FALSE], exc |-> "none"]

(* _figure_mousedown, _figure_mouseup, _figure_mousemoved, lines 163-178,  *)
(* for an event at (xdata, ydata), None outside the canvas.  No function   *)
(* is registered in click_notify.                                          *)
InCanvas(e) == e.xdata # None /\ e.ydata # None

set_x_then_y(v, e, d) ==
    LET rx == set_xy(v, "x", IntC(int(e.xdata.n, 10)), d)
        ry == set_xy(rx.view, "y", IntC(int(e.ydata.n, 10)), d)
    IN  IF rx.exc # "none" THEN rx ELSE ry

figure_mousedown(v, e, d) ==
    IF InCanvas(e)
    THEN LET r == set_x_then_y(v, e, d)
         IN  IF r.exc # "none" THEN r
             ELSE [view |-> [r.view EXCEPT !.is_mouse_down = TRUE], exc |-> "none"]
    ELSE [view |-> v, exc |-> "none"]

figure_mouseup(v, e, d) ==
    LET r == IF InCanvas(e) THEN set_x_then_y(v, e, d) ELSE [view |-> v, exc |-> "none"]
    IN  IF r.exc # "none" THEN r
        ELSE [view |-> [r.view EXCEPT !.is_mouse_down = FALSE], exc |-> "none"]

figure_mousemoved(v, e, d) ==
    IF v.is_mouse_down /\ InCanvas(e) THEN set_x_then_y(v, e, d)
    ELSE [view |-> v, exc |-> "none"]

(* Values assigned to view.x, view.y, view.z: integers of either sign and  *)
(* beyond the cube, fractions in [0, 1], other floats, and a string.       *)
Values ==
    {IntC(k) : k \in {-1, 7}}
        \cup {[t |-> "float", n |-> n] : n \in {5, 10, 27}}
        \cup {[t |-> "str", n |-> 0]}

(* Mouse positions in data coordinates.                                    *)
MouseEvents ==
    {[xdata |-> None, ydata |-> None]}
        \cup {[xdata |-> [t |-> "float", n |-> 4], ydata |-> [t |-> "float", n |-> 12]],
              [xdata |-> [t |-> "float", n |-> 17], ydata |-> [t |-> "float", n |-> -5]]}

(* Arrays a caller assigns to cube.data while the view is shown.           *)
ViewShapes == {<<1, 2, 3>>, <<1, 1, 2>>}
Replacements == {Array3(sh, LAMBDA ix : 7) : sh \in ViewShapes}

cubeFrame ==
    <<hdu, calc_noise_dev, pc, header, object_name, line_name, wcs, index_ra,
      index_dec, index_vel, noise_dev, noise_dev_xy, noise_dev_z, args,
      data_cropped, owner, iter, caller, pre, seed_xy, passes, outcome,
      query, result, xform>>

viewFrame == <<cubeFrame, consoleVars, highlightVars>>

(* CubeViewWidget(cube, parent_window), lines 18-80.                       *)
ViewInit ==
    /\ pc = "idle"
    /\ view = Unset
    /\ view' = [x |-> IntC(0), y |-> IntC(0), z |-> IntC(0),
                last_drawn_x |-> 0, last_drawn_y |-> 0, last_drawn_z |-> 0,
                needs_redraw |-> FALSE,
                scale_value |-> 0, scale_upper |-> data.shape[3] - 1,
                is_mouse_down |-> FALSE,
                image |-> image_of(data, 0),
                scheduled |-> TRUE]
    /\ float_index' \in BOOLEAN
    /\ vcall' = [op |-> "other", exc |-> "none"]
    /\ UNCHANGED <<viewFrame, data>>

(* view.x = value, view.y = value, view.z = value                          *)
SetCoord ==
    /\ pc = "idle"
    /\ view # Unset
    /\ \E axis \in {"x", "y", "z"}, value \in Values :
          LET r == IF axis = "z" THEN set_z(view, value, data)
                   ELSE set_xy(view, axis, value, data)
          IN  /\ view' = r.view
              /\ vcall' = [op |-> "set", exc |-> r.exc]
    /\ UNCHANGED <<viewFrame, data, float_index>>

(* view.update()                                                           *)
Update ==
    /\ pc = "idle"
    /\ view # Unset
    /\ LET r == update(view, data)
       IN  /\ view' = r.view
           /\ vcall' = [op |-> "update", exc |-> r.exc]
    /\ UNCHANGED <<viewFrame, data, float_index>>

(* The main loop is idle and runs the handler registered at line 74.       *)
CheckRedraw ==
    /\ pc = "idle"
    /\ view # Unset
    /\ view.scheduled
    /\ LET r == check_redraw(view, data)
       IN  /\ view' = r.view
           /\ vcall' = [op |-> "_check_redraw", exc |-> r.exc]
    /\ UNCHANGED <<viewFrame, data, float_index>>

(* A mouse button is pressed or released, or the mouse moves.              *)
Mouse ==
    /\ pc = "idle"
    /\ view # Unset
    /\ \E e \in MouseEvents, kind \in {"down", "up", "moved"} :
          LET r == CASE kind = "down" -> figure_mousedown(view, e, data)
                     [] kind = "up" -> figure_mouseup(view, e, data)
                     [] kind = "moved" -> figure_mousemoved(view, e, data)
          IN  /\ view' = r.view
              /\ vcall' = [op |-> "other", exc |-> "none"]
    /\ UNCHANGED <<viewFrame, data, float_index>>

(* The user drags the velocity slider to another position of its range.    *)
Slider ==
    /\ pc = "idle"
    /\ view # Unset
    /\ \E k \in 0..view.scale_upper :
          /\ k # view.scale_value
          /\ view' = update_velocity([view EXCEPT !.scale_value = k], data)
    /\ vcall' = [op |-> "other", exc |-> "none"]
    /\ UNCHANGED <<viewFrame, data, float_index>>

(* cube.data = a, by the program that shows the view.                      *)
ReplaceData ==
    /\ pc = "idle"
    /\ view # Unset
    /\ \E a \in Replacements : a # data /\ data' = a
    /\ vcall' = [op |-> "other", exc |-> "none"]
    /\ UNCHANGED <<viewFrame, view, float_index>>

(* The cube the view is shown for: constructed without a noise estimate.   *)
ViewHDUs ==
    {h \in HDUs : /\ h.header.keys = RequiredKeys
                  /\ h.header.NAXIS = 3
                  /\ h.header.CTYPE = <<"DEC", "RA", "VELO">>
                  /\ \A i \in Idx3(h.data.shape) : h.data.v[i] = 3}

InitView == Init /\ hdu \in ViewHDUs /\ calc_noise_dev = FALSE

NextView ==
    \/ Construct \/ Return
    \/ ViewInit \/ SetCoord \/ Update \/ CheckRedraw \/ Mouse \/ Slider
    \/ ReplaceData

SpecView == InitView /\ [][NextView]_vars

----------------------------------------------------------------------------
(* PythonCommandWidget (astrocubeview.py)                                  *)
(*                                                                         *)
(* The widget's entry has the keyboard focus whenever a key or Enter       *)
(* reaches it, so PlaceholderEntry.get_text returns the text shown.  The   *)
(* text buffer that displays commands and their output is written by       *)
(* pressed_enter only and read by nothing else; of it the model keeps      *)
(* first_error_line, as None or a line.                                    *)

MaxHistory == 3

(* What the user types: nothing, two commands that compile, and one that   *)
(* does not.                                                               *)
Texts == {"", "a", "b", "(("}

(* How compile and exec of a command end, lines 89-90.  What a command     *)
(* that compiles does depends on the names it uses at the time.            *)
Outcomes(cmd_str) ==
    IF cmd_str = "((" THEN {"SyntaxError"} ELSE {"returned", "raised"}

(* command_history[command_history_pos] for a negative position            *)
history_at_FromStart(c, pos) == c.command_history[0 - pos]

history_at(c, pos) == c.command_history[Len(c.command_history) + 1 + pos]

(* pressed_key for the Up key, lines 62-69                                 *)
pressed_up(c) ==
    IF c.command_history_pos > 0 - Len(c.command_history)
    THEN LET c1 == IF c.command_history_pos = 0
                   THEN [c EXCEPT !.command_entered = c.text] ELSE c
             pos == c.command_history_pos - 1
         IN  [c1 EXCEPT !.command_history_pos = pos, !.text = history_at(c, pos)]
    ELSE c

(* pressed_key for the Down key, lines 70-78                               *)
pressed_down_NoRestore(c) ==
    IF c.command_history_pos < 0
    THEN LET pos == c.command_history_pos + 1
         IN  [c EXCEPT !.command_history_pos = pos,
                       !.text = IF pos = 0 THEN "" ELSE history_at(c, pos)]
    ELSE c

pressed_down(c) ==
    IF c.command_history_pos < 0
    THEN LET pos == c.command_history_pos + 1
         IN  [c EXCEPT !.command_history_pos = pos,
                       !.text = IF pos = 0 THEN c.command_entered
                                ELSE history_at(c, pos)]
    ELSE c

(* lines 96-97                                                             *)
append_Always(h, cmd_str) == Append(h, cmd_str)

append(h, cmd_str) ==
    IF h = <<>> \/ h[Len(h)] # cmd_str THEN Append(h, cmd_str) ELSE h

(* The try block of pressed_enter when the command returns, lines 87-113.  *)
entered(c, cmd_str) ==
    [c EXCEPT !.command_history = append(c.command_history, cmd_str),
              !.command_history_pos = 0,
              !.text = "",
              !.first_error_line = None]

(* The except block of pressed_enter, lines 115-124.                       *)
failed(c) ==
    [c EXCEPT !.first_error_line = IF c.first_error_line = None THEN [tag |-> "line"]
                                   ELSE c.first_error_line]

(* sys.stdout after the try block is left by an exception: line 88 has     *)
(* run, line 91 has not, and the except block does not assign it.          *)
stdout_after_failure == "temp_buffer"

(* PythonCommandWidget(user_globals, user_locals), lines 28-59, once the   *)
(* cube is constructed (lines 199 and 258).                                *)
ConsoleInit ==
    /\ pc = "idle"
    /\ console = Unset
    /\ console' = [command_history |-> <<>>,
                   command_history_pos |-> 0,
                   command_entered |-> "",
                   text |-> "",
                   first_error_line |-> None]
    /\ ccall' = [op |-> "__init__"]
    /\ UNCHANGED <<cubeFrame, data, guiVars, highlightVars, sys_stdout, trip>>

(* The user edits the text of the entry.                                   *)
Type ==
    /\ console # Unset
    /\ \E t \in Texts :
          /\ t # console.text
          /\ console' = [console EXCEPT !.text = t]
    /\ ccall' = [op |-> "type"]
    /\ trip' = NoCall
    /\ UNCHANGED <<cubeFrame, data, guiVars, highlightVars, sys_stdout>>

(* The Up key.  trip counts the presses of a walk that starts at position  *)
(* 0 and goes up, then down, with no other event in between.               *)
Up ==
    /\ console # Unset
    /\ console' = pressed_up(console)
    /\ ccall' = [op |-> "Up"]
    /\ trip' = IF console.command_history = <<>> THEN NoCall
               ELSE IF console.command_history_pos = 0
               THEN [text |-> console.text, ups |-> 1, downs |-> 0]
               ELSE IF trip # NoCall /\ trip.downs = 0 /\ console' # console
               THEN [trip EXCEPT !.ups = @ + 1]
               ELSE NoCall
    /\ UNCHANGED <<cubeFrame, data, guiVars, highlightVars, sys_stdout>>

(* The Down key.                                                           *)
Down ==
    /\ console # Unset
    /\ console' = pressed_down(console)
    /\ ccall' = [op |-> "Down"]
    /\ trip' = IF trip # NoCall /\ trip.downs < trip.ups
               THEN [trip EXCEPT !.downs = @ + 1]
               ELSE NoCall
    /\ UNCHANGED <<cubeFrame, data, guiVars, highlightVars, sys_stdout>>

(* pressed_enter, lines 80-129.  Line 83 compares by identity: whether an  *)
(* empty text is the object "" depends on the interpreter, and an empty    *)
(* text that is not goes on to compile.  The history is kept to MaxHistory *)
(* commands.                                                               *)
Enter ==
    /\ console # Unset
    /\ LET cmd_str == console.text
       IN  \/ /\ cmd_str = ""
              /\ ccall' = [op |-> "Enter", cmd_str |-> cmd_str, outcome |-> "empty"]
              /\ UNCHANGED <<console, sys_stdout>>
           \/ \E o \in Outcomes(cmd_str) :
                 /\ ccall' = [op |-> "Enter", cmd_str |-> cmd_str, outcome |-> o]
                 /\ IF o = "returned"
                    THEN /\ Len(append(console.command_history, cmd_str)) <= MaxHistory
                         /\ console' = entered(console, cmd_str)
                         /\ sys_stdout' = "sys.__stdout__"
                    ELSE /\ console' = failed(console)
                         /\ sys_stdout' = stdout_after_failure
    /\ trip' = NoCall
    /\ UNCHANGED <<cubeFrame, data, guiVars, highlightVars>>

InitConsole == InitView

NextConsole ==
    \/ Construct \/ Return
    \/ ConsoleInit \/ Type \/ Up \/ Down \/ Enter

SpecConsole == InitConsole /\ [][NextConsole]_vars

----------------------------------------------------------------------------
(* CubeViewWidget._Highlighter (cubeview.py)                               *)
(*                                                                         *)
(* _hdata is a name: bound "own" it refers to an array of the highlighter, *)
(* bound "new_mask" to the very array the caller handed to highlight().    *)
(* alpha is the alpha channel of _preimage, indexed as the cube's pixels.  *)

zeros(shape) == Array3(shape, LAMBDA ix : 0)

(* The array self._hdata refers to.                                        *)
hdata(h, m) == IF h.bound = "new_mask" THEN m ELSE h.own

(* self._hdata = new_mask, line 234                                        *)
bind(h, new_mask) == [h EXCEPT !.bound = "new_mask"]

(* _generate_preimage, lines 248-254, for the cube data d                  *)
generate_preimage(h, d) ==
    [h EXCEPT !.alpha = [shape |-> <<d.shape[1], d.shape[2]>>,
                         v |-> [p \in Idx2(d.shape) |-> 0]]]

(* self._preimage[:,:,3] = self._hdata[:,:,z].transpose(1,0), line 241,    *)
(* raises: z does not index _hdata, or the plane cannot be broadcast to    *)
(* the preimage.                                                           *)
ImgplotRaises(h, v, m) ==
    LET hd == hdata(h, m)
    IN  \/ IndexRaises(v.z, hd.shape[3])
        \/ hd.shape[1] \notin {1, h.alpha.shape[1]}
        \/ hd.shape[2] \notin {1, h.alpha.shape[2]}

(* _update_imgplot, lines 239-244: the highlighter, the view and the       *)
(* exception that leaves it, if any.                                       *)
update_imgplot(h, v, m, trigger_redraw) ==
    IF ImgplotRaises(h, v, m)
    THEN [h |-> h, view |-> v, exc |-> "IndexError"]
    ELSE LET hd == hdata(h, m)
             plane == [p \in DOMAIN h.alpha.v |->
                          hd.v[<<IF hd.shape[1] = 1 THEN 0 ELSE p[1],
                                 IF hd.shape[2] = 1 THEN 0 ELSE p[2],
                                 Whole(v.z)>>]]
         IN  [h |-> [h EXCEPT !.alpha.v = plane],
              view |-> IF trigger_redraw THEN [v EXCEPT !.needs_redraw = TRUE] ELSE v,
              exc |-> "none"]

(* Arrays a caller hands to highlight(): masks of the shapes cube.data     *)
(* takes, fully and partly set.                                            *)
Masks ==
    {Array3(sh, LAMBDA ix : 1) : sh \in ViewShapes}
        \cup {Array3(<<1, 2, 3>>, LAMBDA ix : IF ix[3] = 1 THEN 1 ELSE 0)}

(* Values assigned to view.z while a highlighter exists.                   *)
HighlightZ == {IntC(1), IntC(-1), [t |-> "float", n |-> 5]}

(* cube_view.create_highlighter(), lines 205-214 and 218-225.              *)
CreateHighlighter ==
    /\ pc = "idle"
    /\ view # Unset
    /\ highlighter = Unset
    /\ highlighter' = generate_preimage([bound |-> "own", own |-> zeros(data.shape),
                                         alpha |-> Unset], data)
    /\ hcall' = [op |-> "create_highlighter", exc |-> "none"]
    /\ UNCHANGED <<cubeFrame, consoleVars, data, guiVars, mask, passed>>

(* h.highlight(new_mask), lines 227-235.  The assert of line 233 is        *)
(* skipped when Python runs with -O.                                       *)
Highlight ==
    /\ pc = "idle"
    /\ highlighter # Unset
    /\ \E new_mask \in Masks, asserts \in BOOLEAN :
          IF asserts /\ new_mask.shape # data.shape
          THEN /\ hcall' = [op |-> "highlight", exc |-> "AssertionError"]
               /\ UNCHANGED <<highlighter, mask, passed, view>>
          ELSE LET r == update_imgplot(bind(highlighter, new_mask), view,
                                       new_mask, TRUE)
               IN  /\ mask' = new_mask
                   /\ passed' = new_mask
                   /\ highlighter' = r.h
                   /\ view' = r.view
                   /\ hcall' = [op |-> "highlight", exc |-> r.exc]
    /\ UNCHANGED <<cubeFrame, consoleVars, data, vcall, float_index>>

(* h.clear(), lines 236-238: fill(0) writes into the array _hdata refers   *)
(* to.                                                                     *)
Clear ==
    /\ pc = "idle"
    /\ highlighter # Unset
    /\ LET filled == zeros(hdata(highlighter, mask).shape)
           h1 == IF highlighter.bound = "own"
                 THEN [highlighter EXCEPT !.own = filled] ELSE highlighter
           m1 == IF highlighter.bound = "new_mask" THEN filled ELSE mask
           r == update_imgplot(h1, view, m1, TRUE)
       IN  /\ mask' = m1
           /\ highlighter' = r.h
           /\ view' = r.view
           /\ hcall' = [op |-> "clear", exc |-> r.exc]
    /\ UNCHANGED <<cubeFrame, consoleVars, data, vcall, float_index, passed>>

(* view.z = value with a highlighter, lines 114-128: after the slider is   *)
(* synchronised, line 128 calls _update_z, which reads the view's z.       *)
HighlightSetZ ==
    /\ pc = "idle"
    /\ highlighter # Unset
    /\ \E value \in HighlightZ :
          LET rz == set_z(view, value, data)
              r == update_imgplot(highlighter, rz.view, mask, FALSE)
          IN  /\ rz.exc = "none"
              /\ view' = r.view
              /\ highlighter' = r.h
              /\ hcall' = [op |-> "z", exc |-> r.exc]
    /\ vcall' = [op |-> "set", exc |-> hcall'.exc]
    /\ UNCHANGED <<cubeFrame, consoleVars, data, float_index, mask, passed>>

(* view.update() with a highlighter, lines 130-145: lines 140-142 give the *)
(* highlighter a new preimage and a new array of zeros before line 145     *)
(* runs the setters, the z setter ending in _update_z.                     *)
HighlightUpdate ==
    /\ pc = "idle"
    /\ highlighter # Unset
    /\ LET h1 == generate_preimage([highlighter EXCEPT !.bound = "own",
                                                       !.own = zeros(data.shape)], data)
           ru == update(view, data)
           r == IF ru.exc = "none" THEN update_imgplot(h1, ru.view, mask, FALSE)
                ELSE [h |-> h1, view |-> ru.view, exc |-> ru.exc]
       IN  /\ view' = r.view
           /\ highlighter' = r.h
           /\ hcall' = [op |-> "update", exc |-> r.exc]
    /\ vcall' = [op |-> "update", exc |-> hcall'.exc]
    /\ UNCHANGED <<cubeFrame, consoleVars, data, float_index, mask, passed>>

InitHighlight == InitView

NextHighlight ==
    \/ Construct \/ Return \/ ViewInit \/ ReplaceData
    \/ CreateHighlighter \/ Highlight \/ Clear \/ HighlightSetZ \/ HighlightUpdate

SpecHighlight == InitHighlight /\ [][NextHighlight]_vars

----------------------------------------------------------------------------
(* Properties                                                              *)

(* The value the file holds at FITS pixel (c[0], c[1], c[2]).              *)
FileValue(c) == hdu.data.v[<<c[2], c[1], c[0]>>]

(* C1: after construction data[x,y,z] is the file's value at the pixel     *)
(* with x along the RA axis, y along the DEC axis and z along the spectral *)
(* axis, and data.shape is (RA size, DEC size, VEL size), for every        *)
(* assignment of the three roles to the file's axes.                       *)
C1_AxisOrder ==
    IsArray(data) =>
        LET w == WCS(hdu.header)
            naxis == [n \in 0..2 |-> hdu.data.shape[3 - n]]
            at(ix) == [n \in 0..2 |-> IF n = w.lng THEN ix[1]
                                      ELSE IF n = w.lat THEN ix[2] ELSE ix[3]]
        IN  /\ data.shape = <<naxis[w.lng], naxis[w.lat], naxis[w.spec]>>
            /\ DOMAIN data.v = Idx3(data.shape)
            /\ \A ix \in Idx3(data.shape) : data.v[ix] = FileValue(at(ix))

C1_Witness ==
    /\ IsArray(data)
    /\ hdu.header.CTYPE = <<"VELO", "RA", "DEC">>
    /\ data.shape = <<1, 3, 2>>
    /\ \E ix \in Idx3(data.shape) : data.v[ix] = -8

(* C2: a calc_noise_dev call with compute_spectral_variation=True and      *)
(* iterations >= 1 never returns a result.                                 *)
C2_SpectralVariationFails ==
    (/\ pc = "done"
     /\ caller = "user"
     /\ args.compute_spectral_variation
     /\ args.iterations >= 1) => outcome # "returned"

(* C3: a call that fails because spectral variation was requested leaves   *)
(* noise_dev and noise_dev_xy as they were before the call.                *)
C3_FailureLeavesNoise ==
    (pc = "done" /\ outcome = "Exception: not implemented") =>
        /\ noise_dev = pre.noise_dev
        /\ noise_dev_xy = pre.noise_dev_xy

(* C4: between calls, noise_dev is None or an array of data's shape with   *)
(* noise_dev[i,j,k] = noise_dev_xy[i,j], noise_dev_xy having the shape of  *)
(* data's first two axes.                                                  *)
C4_NoiseShape ==
    pc = "idle" =>
        \/ noise_dev = None /\ noise_dev_xy = None
        \/ /\ IsArray(noise_dev)
           /\ IsArray(noise_dev_xy)
           /\ noise_dev.shape = data.shape
           /\ noise_dev_xy.shape = <<data.shape[1], data.shape[2]>>
           /\ \A ix \in Idx3(data.shape) :
                  noise_dev.v[ix] = noise_dev_xy.v[<<ix[1], ix[2]>>]

C4_Witness ==
    /\ pc = "idle"
    /\ IsArray(noise_dev)
    /\ noise_dev.shape # data.shape

(* C5: a seed slice whose first or second axis length differs from data's  *)
(* makes the call fail with noise_dev and noise_dev_xy unchanged; a seed   *)
(* slice of matching spatial shape is never rejected, whatever its depth.  *)
C5_SeedShape ==
    (/\ pc \in {"loop", "done"}
     /\ caller = "user"
     /\ args.noise_slice_z # None) =>
        LET slice == args.noise_slice_z
        IN  IF slice.shape[1] # data.shape[1] \/ slice.shape[2] # data.shape[2]
            THEN /\ pc = "done"
                 /\ outcome = "Exception: Invalid argument"
                 /\ passes = 0
                 /\ noise_dev = pre.noise_dev
                 /\ noise_dev_xy = pre.noise_dev_xy
            ELSE outcome # "Exception: Invalid argument"

C5_Witness ==
    /\ pc = "done"
    /\ caller = "user"
    /\ args.noise_slice_z # None
    /\ args.noise_slice_z.shape[2] # data.shape[2]
    /\ args.noise_slice_z.shape[1] = data.shape[1]
    /\ outcome = "Exception: Invalid argument"
    /\ IsArray(pre.noise_dev)
    /\ \E ix \in DOMAIN pre.noise_dev.v : ~isnan(pre.noise_dev.v[ix])

(* C6: construction from a header that lacks OBJECT, LINENAME or NAXIS, or *)
(* whose NAXIS is not 3, fails with no WCS object built and with none of   *)
(* object_name, line_name, data, noise_dev, noise_dev_xy assigned.         *)
C6_HeaderRejected ==
    (/\ pc # "new"
     /\ \/ "OBJECT" \notin hdu.header.keys
        \/ "LINENAME" \notin hdu.header.keys
        \/ "NAXIS" \notin hdu.header.keys
        \/ hdu.header.NAXIS # 3) =>
        /\ pc = "failed"
        /\ outcome = "Exception: not a valid data cube"
        /\ wcs = Unset
        /\ index_ra = Unset /\ index_dec = Unset /\ index_vel = Unset
        /\ object_name = Unset
        /\ line_name = Unset
        /\ data = Unset
        /\ noise_dev = Unset
        /\ noise_dev_xy = Unset
        /\ passes = 0

C6_Witness ==
    /\ pc = "failed"
    /\ hdu.header.keys = {"OBJECT", "NAXIS"}
    /\ hdu.header.NAXIS = 3
    /\ header = hdu.header

(* C7: after a call that returns, noise_dev_xy[i,j] is NaN exactly at the  *)
(* pixels whose whole column data[i,j,:] is NaN.                           *)
AllNaNColumn(a, p) == \A k \in 0..(a.shape[3] - 1) : isnan(a.v[<<p[1], p[2], k>>])

C7_NaNOnlyAllNaN ==
    (/\ pc = "done"
     /\ outcome = "returned"
     /\ args # NoCall
     /\ args.noise_slice_z = None
     /\ args.iterations >= 1) =>
        \A p \in Idx2(data.shape) :
            isnan(noise_dev_xy.v[p]) <=> AllNaNColumn(data, p)

(* The noise_dev_xy that calc_noise_dev(a) leaves on a cube whose data is  *)
(* d, when the seed slice (if any) has d's spatial shape: the seed         *)
(* estimate, then the loop bodies until the loop ends or raises.           *)
RECURSIVE refine(_, _, _, _)
refine(working, nd, a, i) ==
    IF i >= a.iterations THEN mad(working)
    ELSE LET clipped == clip(working, a.signal_threshold, nd)
         IN  IF a.compute_spectral_variation THEN mad(clipped)
             ELSE refine(clipped, expand_times_ones(mad(clipped), working.shape[3]), a, i + 1)

estimate(d, a) ==
    LET xy == mad(IF a.noise_slice_z = None THEN d ELSE a.noise_slice_z)
    IN  IF Refines(a.iterations) THEN refine(d, expand_dims(xy), a, 1) ELSE xy

(* Values written over the other pixels to obtain a second cube.           *)
Fillers == {NaN, 7}

(* d with every voxel outside pixel p's column replaced by c.              *)
OtherCube(d, p, c) ==
    Array3(d.shape, LAMBDA ix : IF <<ix[1], ix[2]>> = p THEN d.v[ix] ELSE c)

(* C8: the estimate at a pixel depends only on that pixel's column: a cube *)
(* that agrees with data on data[i,j,:] and differs at the other pixels    *)
(* gets, from the same call, the same noise_dev_xy[i,j].                   *)
C8_PixelLocal ==
    (/\ pc = "done"
     /\ args # NoCall
     /\ outcome # "Exception: Invalid argument") =>
        \A p \in Idx2(data.shape) : \A c \in Fillers :
            estimate(OtherCube(data, p, c), args).v[p] = noise_dev_xy.v[p]

C8_Witness ==
    /\ pc = "done"
    /\ outcome = "returned"
    /\ args # NoCall
    /\ args.iterations = 3
    /\ noise_dev_xy # seed_xy
    /\ \E p \in Idx2(data.shape), q \in Idx2(data.shape) :
          /\ p # q
          /\ ~isnan(noise_dev_xy.v[p]) /\ noise_dev_xy.v[p] > 0
          /\ \E k \in 0..(data.shape[3] - 1) : data.v[<<q[1], q[2], k>>] \notin Fillers

(* C9: in a refinement pass a voxel of the working copy becomes NaN if and *)
(* only if its value is strictly greater than signal_threshold times the   *)
(* previous noise_dev_xy at its pixel; every other voxel keeps its value   *)
(* (negative values and voxels at pixels whose estimate is NaN included).  *)
C9_ClipRule ==
    [][(pc = "loop" /\ pc' = "loop") =>
          \A ix \in Idx3(data.shape) :
              LET x == data_cropped.v[ix]
                  n == noise_dev_xy.v[<<ix[1], ix[2]>>]
                  exceeds == /\ x # NaN
                             /\ n # NaN
                             /\ x * 4 * ScaleDen > args.signal_threshold * n
              IN  /\ (data_cropped'.v[ix] = NaN /\ x # NaN) <=> exceeds
                  /\ ~exceeds => data_cropped'.v[ix] = x]_vars

C9_Witness ==
    /\ pc = "loop"
    /\ passes = 2
    /\ \E ix \in Idx3(data.shape) : data_cropped.v[ix] = NaN /\ data.v[ix] = 3
    /\ \E ix \in Idx3(data.shape) : data_cropped.v[ix] = -8
    /\ \E ix \in Idx3(data.shape) :
          data_cropped.v[ix] = 1 /\ noise_dev_xy.v[<<ix[1], ix[2]>>] > 0

(* C10: a call with iterations = n that returns has run n - 1 loop bodies  *)
(* when n > 1 and none otherwise; when none, noise_dev_xy is the seed      *)
(* estimate and noise_dev is that estimate repeated along the third axis.  *)
C10_PassCount ==
    (pc = "done" /\ outcome = "returned" /\ args # NoCall) =>
        /\ passes = (IF args.iterations > 1 THEN args.iterations - 1 ELSE 0)
        /\ args.iterations <= 1 =>
              /\ noise_dev_xy = seed_xy
              /\ noise_dev.shape = data.shape
              /\ \A ix \in Idx3(data.shape) :
                    noise_dev.v[ix] = seed_xy.v[<<ix[1], ix[2]>>]

C10_Witness ==
    /\ pc = "done"
    /\ outcome = "returned"
    /\ args # NoCall
    /\ args.iterations = 1
    /\ passes = 0
    /\ \E p \in Idx2(data.shape) : seed_xy.v[p] # NaN /\ seed_xy.v[p] > 0

(* The non-NaN values of the sequence col, in non-decreasing order.        *)
SortedValues(col) ==
    LET keep == {i \in 1..Len(col) : col[i] # NaN}
        vals == {col[i] : i \in keep}
        n == Cardinality(keep)
    IN  CHOOSE s \in [1..n -> vals] :
            /\ \A i \in 1..n, j \in 1..n : i < j => s[i] <= s[j]
            /\ \A v \in vals :
                  Cardinality({i \in 1..n : s[i] = v}) = Cardinality({i \in keep : col[i] = v})

(* Twice the median of a sorted sequence of at least one value.            *)
TwiceMiddle(s) ==
    LET n == Len(s)
    IN  IF n % 2 = 1 THEN 2 * s[(n + 1) \div 2] ELSE s[n \div 2] + s[n \div 2 + 1]

(* The column of a at pixel p, as a sequence.                              *)
Column(a, p) == [k \in 1..a.shape[3] |-> a.v[<<p[1], p[2], k - 1>>]]

(* C11: the seed estimate at [i,j] is scale * median(|v - median(v)|) over *)
(* the non-NaN values v of the seed data along z (the seed slice when      *)
(* given, else the cube), an even count taking the mean of the two middle  *)
(* values; with n the estimate, n / (4*6745) = MAD * 10000/6745, that is   *)
(* n = 10000 * 4*MAD.  It is NaN when the column holds no value.           *)
C11_SeedEstimate ==
    (pc \in {"loop", "done"} /\ IsArray(seed_xy)) =>
        LET seed == IF args.noise_slice_z = None THEN data ELSE args.noise_slice_z
        IN  \A p \in Idx2(data.shape) :
                LET v == SortedValues(Column(seed, p))
                    m2 == TwiceMiddle(v)
                    dev == SortedValues([i \in 1..Len(v) |-> Abs(2 * v[i] - m2)])
                IN  IF Len(v) = 0 THEN seed_xy.v[p] = NaN
                    ELSE seed_xy.v[p] = ScaleNum * TwiceMiddle(dev)

C11_Witness ==
    /\ pc = "done"
    /\ outcome = "returned"
    /\ IsArray(seed_xy)
    /\ args.noise_slice_z # None
    /\ args.noise_slice_z.shape[3] = 2
    /\ \E p \in Idx2(data.shape) :
          /\ Column(args.noise_slice_z, p) = <<1, 3>>
          /\ seed_xy.v[p] = 40000

(* C12: no step of calc_noise_dev changes an element of self.data or of    *)
(* the caller's noise_slice_z, whatever the arguments and however the call *)
(* ends; the clipped working array is a private object and is gone when    *)
(* the call is over.                                                       *)
C12_NoMutation ==
    [][ /\ pc \in {"idle", "loop"} => data' = data
        /\ pc = "loop" => args'.noise_slice_z = args.noise_slice_z
        /\ pc' = "loop" => owner' = "private"
        /\ pc' \in {"done", "idle"} => data_cropped' = Unset /\ owner' = "none"
      ]_vars

(* A pass has clipped values of the working array in a call with a seed    *)
(* slice.                                                                  *)
C12_Witness ==
    /\ pc = "loop"
    /\ passes >= 1
    /\ caller = "user"
    /\ args.noise_slice_z # None
    /\ data_cropped # data
    /\ \E i \in Idx3(data.shape) : data_cropped.v[i] = NaN /\ data.v[i] # NaN

(* noise_dev as calc_noise_dev(a) leaves it on a cube with data d, when    *)
(* the call gets past the seed slice check: the seed estimate with a       *)
(* singleton z axis when the first pass raises, else the final estimate    *)
(* repeated along z.                                                       *)
estimate_dev(d, a) ==
    IF Refines(a.iterations) /\ a.compute_spectral_variation
    THEN expand_dims(mad(IF a.noise_slice_z = None THEN d ELSE a.noise_slice_z))
    ELSE expand_times_ones(estimate(d, a), d.shape[3])

(* The noise state calc_noise_dev(a) leaves on a cube with data d that     *)
(* held the noise state q when the call began.                             *)
call(d, a, q) ==
    IF a.noise_slice_z # None /\ ShapeMismatch(a.noise_slice_z, d) THEN q
    ELSE [noise_dev |-> estimate_dev(d, a), noise_dev_xy |-> estimate(d, a)]

NoEstimate == [noise_dev |-> None, noise_dev_xy |-> None]

(* C13 as stated: whatever noise state the cube held before, every call    *)
(* leaves the noise_dev and noise_dev_xy that the same call leaves on a    *)
(* cube with the same data and no estimate yet.                            *)
C13_AnyCallReplaces ==
    (pc = "done" /\ args # NoCall) =>
        [noise_dev |-> noise_dev, noise_dev_xy |-> noise_dev_xy]
            = call(data, args, NoEstimate)

(* C13, amended: a call that gets past the seed slice check leaves a       *)
(* noise_dev and noise_dev_xy that are functions of data and the call's    *)
(* arguments alone, whatever noise state the cube held before (none, an    *)
(* estimate made with other arguments, or what a failed call left); a call *)
(* rejected by the seed slice check leaves both as they were.              *)
C13_Determined ==
    (pc = "done" /\ args # NoCall) =>
        /\ [noise_dev |-> noise_dev, noise_dev_xy |-> noise_dev_xy]
               = call(data, args, pre)
        /\ outcome # "Exception: Invalid argument" =>
               /\ noise_dev_xy = estimate(data, args)
               /\ noise_dev = estimate_dev(data, args)
        /\ outcome = "Exception: Invalid argument" =>
               /\ noise_dev = pre.noise_dev
               /\ noise_dev_xy = pre.noise_dev_xy

(* A refining call has replaced an estimate made with other arguments.     *)
C13_Witness ==
    /\ pc = "done"
    /\ caller = "user"
    /\ outcome = "returned"
    /\ passes >= 1
    /\ IsArray(pre.noise_dev_xy)
    /\ pre.noise_dev_xy # noise_dev_xy
    /\ pre.noise_dev.shape[3] = 1

(* The triple t denotes x = n / t.den: |a| + m/60 + s/3600 = |x|, the      *)
(* minutes and seconds lie in [0, 60), and no component has the sign       *)
(* opposite to x's.                                                        *)
Denotes(t, n) ==
    /\ (Abs(t.a) * 3600 + t.m * 60) * t.den + t.s = 3600 * Abs(n)
    /\ 0 <= t.m /\ t.m < 60
    /\ 0 <= t.s /\ t.s < 60 * t.den
    /\ (n < 0 => t.a <= 0) /\ (n > 0 => t.a >= 0)

(* C14: for every negative d, _deg2dms(d) is (d truncated toward zero,     *)
(* the arcminutes of |d|, the arcseconds of |d|), a triple that with the   *)
(* sign applied once denotes d.                                            *)
C14_NegativeDms ==
    (pc = "done" /\ query # NoCall /\ query.op = "_deg2dms" /\ query.deg < 0) =>
        /\ result.a = int(query.deg, AngleDen)
        /\ result.m = deg2dms(-query.deg).m
        /\ result.s = deg2dms(-query.deg).s
        /\ Denotes(result, query.deg)

(* The 0-based position of the axis of the given type in the file.         *)
AxisPos(name) == (CHOOSE n \in 1..3 : hdu.header.CTYPE[n] = name) - 1

(* C15: for every assignment of axis roles, point_coords(x, y, z) hands    *)
(* the transform one vector, in the file's axis order, holding x at the    *)
(* RA axis, y at the DEC axis and z at the spectral axis, and returns the  *)
(* transform's RA and DEC components and its spectral component (m/s)      *)
(* divided by 1000.                                                        *)
C15_PointCoords ==
    (pc = "done" /\ query # NoCall /\ query.op = "point_coords") =>
        /\ Len(xform) = 1
        /\ xform[1][AxisPos("RA")] = query.x
        /\ xform[1][AxisPos("DEC")] = query.y
        /\ xform[1][AxisPos("VELO")] = query.z
        /\ LET sky == all_pix2sky(wcs, xform[1])
           IN  /\ result.ra = sky[AxisPos("RA")]
               /\ result.dec = sky[AxisPos("DEC")]
               /\ result.vel * 1000 = sky[AxisPos("VELO")] * KmsDen
        /\ result.ra = SkyRef.lng + SkyStep.lng * query.x
        /\ result.dec = SkyRef.lat + SkyStep.lat * query.y
        /\ result.vel * 1000 = (SkyRef.spec + SkyStep.spec * query.z) * KmsDen

(* A point with three different coordinates, in a file whose first axis is *)
(* the spectral one: (1, -9, 3) is at RA 83.1325, DEC -5.25, 8.75 km/s.    *)
C15_Witness ==
    /\ pc = "done"
    /\ query = [op |-> "point_coords", x |-> 1, y |-> -9, z |-> 3]
    /\ hdu.header.CTYPE = <<"VELO", "RA", "DEC">>
    /\ xform = <<(0 :> 3 @@ 1 :> 1 @@ 2 :> -9)>>
    /\ result = [tag |-> "tuple", ra |-> 99759, dec |-> -6300, vel |-> 875]

(* The header names an RA-typed longitude axis and a DEC-typed latitude    *)
(* axis but the three role indices are not a permutation of {0, 1, 2}.     *)
RolesNotPermutation(h) ==
    LET w == WCS(h)
    IN  /\ RequiredKeys \subseteq h.keys /\ h.NAXIS = 3
        /\ w.lngtyp = "RA" /\ w.lattyp = "DEC"
        /\ {w.lng, w.lat, w.spec} # {0, 1, 2}

(* C16: from a header whose role indices are not a permutation of          *)
(* {0, 1, 2} construction ends in an error: no cube is ever produced, and  *)
(* data is never set, so no axis is presented dropped or duplicated.       *)
C16_NonPermutationFatal ==
    RolesNotPermutation(hdu.header) =>
        /\ pc \in {"new", "failed"}
        /\ pc = "failed" => outcome = "ValueError"
        /\ data = Unset
        /\ noise_dev = Unset /\ noise_dev_xy = Unset

(* A file with RA, DEC and a third axis that is not spectral was rejected. *)
C16_Witness ==
    /\ pc = "failed"
    /\ outcome = "ValueError"
    /\ hdu.header.CTYPE = <<"RA", "DEC", "STOKES">>
    /\ wcs.spec = -1
    /\ data = Unset

(* The header passes the keyword check and its longitude axis is not of    *)
(* type RA or its latitude axis is not of type DEC.                        *)
NotEquatorial(h) ==
    /\ RequiredKeys \subseteq h.keys /\ h.NAXIS = 3
    /\ \E n \in 1..3 : h.CTYPE[n] \in {"GLON", "GLAT"}

(* C17: construction from a header whose longitude axis is not RA-typed or *)
(* whose latitude axis is not DEC-typed fails, and it fails before the     *)
(* axis indices are stored, the data is reindexed or any noise estimate is *)
(* computed.                                                               *)
C17_AxisTypesChecked ==
    NotEquatorial(hdu.header) =>
        /\ pc \in {"new", "failed"}
        /\ pc = "failed" => outcome = "AssertionError"
        /\ index_ra = Unset /\ index_dec = Unset /\ index_vel = Unset
        /\ data = Unset
        /\ noise_dev = Unset /\ noise_dev_xy = Unset /\ seed_xy = Unset

(* A file whose longitude is RA and whose latitude is galactic was         *)
(* rejected.                                                               *)
C17_Witness ==
    /\ pc = "failed"
    /\ outcome = "AssertionError"
    /\ hdu.header.CTYPE = <<"RA", "GLAT", "VELO">>
    /\ wcs.lngtyp = "RA" /\ wcs.lattyp = "GLAT"
    /\ data = Unset

(* C18: point_coords_str with ra_fmt or dec_fmt outside {deg, hms, dms}    *)
(* fails and returns nothing, whichever argument is invalid and whatever   *)
(* the other is; with both valid it returns three strings, the third being *)
(* the velocity in km/s, to the requested decimals, followed by " km/s".   *)
C18_FormatChecked ==
    (pc = "done" /\ query # NoCall /\ query.op = "point_coords_str") =>
        IF query.ra_fmt \notin {"deg", "hms", "dms"}
           \/ query.dec_fmt \notin {"deg", "hms", "dms"}
        THEN /\ outcome = "AssertionError"
             /\ result = Unset
             /\ xform = <<>>
        ELSE /\ outcome = "returned"
             /\ DOMAIN result = {"tag", "ra_str", "dec_str", "vel_str"}
             /\ result.ra_str # Unset
             /\ result.dec_str # Unset
             /\ result.vel_str.text = "{0} km/s"
             /\ result.vel_str.decimals = query.decimals
             /\ LET v == SkyRef.spec + SkyStep.spec * query.z
                IN  2 * Abs(1000 * result.vel_str.s - v * Pow10(query.decimals)) <= 1000

(* A call with a valid ra_fmt and an unknown dec_fmt has failed.           *)
C18_Witness ==
    /\ pc = "done"
    /\ query # NoCall
    /\ query.op = "point_coords_str"
    /\ query.ra_fmt = "hms"
    /\ query.dec_fmt = "rad"
    /\ outcome = "AssertionError"
    /\ result = Unset

(* t is the hours-minutes-seconds triple of n / t.den hours, n >= 0, with  *)
(* the whole hours and whole minutes truncated: h <= x < h + 1,            *)
(* m <= 60 (x - h) < m + 1, s = 60 (60 (x - h) - m).                       *)
TruncatedHms(t, n) ==
    LET frac_h == n - t.a * t.den
        frac_m == 60 * frac_h - t.m * t.den
    IN  /\ 0 <= frac_h /\ frac_h < t.den
        /\ 0 <= frac_m /\ frac_m < t.den
        /\ t.s = 60 * frac_m

(* C19: for every non-negative deg, _deg2hms(deg) is (h, m, s) with h the  *)
(* truncation of deg/15, m the truncation of the fractional hours times    *)
(* 60 and s the fractional minutes times 60, so that 0 <= m < 60,          *)
(* 0 <= s < 60 and h + m/60 + s/3600 = deg/15; the hms string shows the    *)
(* same truncated h and m.                                                 *)
C19_Hms ==
    /\ (pc = "done" /\ query # NoCall /\ query.op = "_deg2hms" /\ query.deg >= 0) =>
          /\ result.den = 15 * AngleDen
          /\ TruncatedHms(result, query.deg)
          /\ Denotes(result, query.deg)
    /\ (pc = "done" /\ query # NoCall /\ query.op = "point_coords_str"
            /\ outcome = "returned" /\ query.ra_fmt = "hms") =>
          LET ra == SkyRef.lng + SkyStep.lng * query.x
          IN  /\ ra >= 0
              /\ result.ra_str.a * 15 * AngleDen <= ra
              /\ ra < (result.ra_str.a + 1) * 15 * AngleDen
              /\ result.ra_str.m * 15 * AngleDen <= 60 * (ra - result.ra_str.a * 15 * AngleDen)
              /\ 60 * (ra - result.ra_str.a * 15 * AngleDen) < (result.ra_str.m + 1) * 15 * AngleDen

(* _deg2hms(83.6325) = (5, 34, 31.8): neither 5.5755 h nor 34.53 min is    *)
(* rounded up.                                                             *)
C19_Witness ==
    /\ pc = "done"
    /\ query = [op |-> "_deg2hms", deg |-> 100359]
    /\ result = [a |-> 5, m |-> 34, s |-> 572400, den |-> 18000]

(* C20: a constructor called with calc_noise_dev = True leaves the noise   *)
(* arrays that calc_noise_dev leaves with 3 iterations, threshold 4, no    *)
(* seed slice and no spectral variation; called with calc_noise_dev =      *)
(* False it leaves noise_dev and noise_dev_xy None, and a None noise array *)
(* changes only in a step that is an explicit call of calc_noise_dev.      *)
C20_ConstructorFlag ==
    [][ LET built == pc' = "done" /\ caller' = "init" /\ outcome' = "returned"
            xy == estimate(data', [iterations |-> 3, signal_threshold |-> 4,
                                   noise_slice_z |-> None,
                                   compute_spectral_variation |-> FALSE])
        IN  /\ (built /\ calc_noise_dev) =>
                  /\ noise_dev_xy' = xy
                  /\ noise_dev' = expand_times_ones(xy, data'.shape[3])
            /\ (built /\ ~calc_noise_dev) =>
                  /\ noise_dev' = None
                  /\ noise_dev_xy' = None
            /\ ((noise_dev = None \/ noise_dev_xy = None)
                    /\ (noise_dev' # noise_dev \/ noise_dev_xy' # noise_dev_xy)) =>
                  /\ pc = "idle"
                  /\ caller' = "user"
                  /\ args' # NoCall
      ]_vars

(* A constructor with calc_noise_dev = True has finished after two         *)
(* refining passes that changed the seed estimate.                         *)
C20_Witness ==
    /\ pc = "done"
    /\ caller = "init"
    /\ calc_noise_dev
    /\ outcome = "returned"
    /\ passes = 2
    /\ noise_dev_xy # seed_xy
    /\ noise_dev.shape = data.shape

ReadOnlyOps == {"shape", "point_coords", "point_coords_str", "velocity_at", "__str__"}

(* C21: shape, point_coords, point_coords_str, velocity_at and __str__     *)
(* leave data, noise_dev, noise_dev_xy, object_name and line_name as they  *)
(* were, in every state of a constructed cube; on a constructed cube these *)
(* attributes change only in a calc_noise_dev call; and __str__ on a cube  *)
(* whose noise_dev is None reports "not computed" and leaves it None.      *)
C21_ReadOnly ==
    [][ LET same == /\ data' = data
                    /\ noise_dev' = noise_dev
                    /\ noise_dev_xy' = noise_dev_xy
                    /\ object_name' = object_name
                    /\ line_name' = line_name
        IN  /\ (pc = "idle" /\ query' # NoCall) =>
                  /\ query'.op \in ReadOnlyOps => same
                  /\ (query'.op = "__str__" /\ noise_dev = None) =>
                        /\ outcome' = "returned"
                        /\ result'.sigma = [tag |-> "str", s |-> "not computed"]
                        /\ noise_dev' = None
            /\ (pc \in {"idle", "done"} /\ ~same) =>
                  /\ pc = "idle"
                  /\ args' # NoCall
                  /\ query' = NoCall
      ]_vars

(* str(cube) has returned on a cube constructed without a noise estimate.  *)
C21_Witness ==
    /\ pc = "done"
    /\ query = [op |-> "__str__"]
    /\ outcome = "returned"
    /\ noise_dev = None
    /\ noise_dev_xy = None
    /\ result.sigma.s = "not computed"
    /\ result.dmax = 3

(* The view's coordinates index the array d.                               *)
InRange(v, d) ==
    /\ 0 <= Whole(v.x) /\ Whole(v.x) < d.shape[1]
    /\ 0 <= Whole(v.y) /\ Whole(v.y) < d.shape[2]
    /\ 0 <= Whole(v.z) /\ Whole(v.z) < d.shape[3]

(* C22: while cube.data keeps its shape, the view's coordinates satisfy    *)
(* 0 <= x < shape[0], 0 <= y < shape[1], 0 <= z < shape[2]: they do when   *)
(* the view is created, and every assignment to x, y or z, mouse event,    *)
(* slider move, update() and idle run on a view whose coordinates are in   *)
(* range leaves them in range; an assignment that raises ValueError leaves *)
(* x, y and z as they were.                                                *)
C22_InRange ==
    [][ /\ (view = Unset /\ view' # Unset) => InRange(view', data')
        /\ (view # Unset /\ InRange(view, data) /\ data'.shape = data.shape)
              => InRange(view', data')
        /\ (view # Unset /\ vcall'.op = "set" /\ vcall'.exc = "ValueError")
              => view' = view
      ]_vars

(* x = "abc" was refused on a view whose y and z had been set by values    *)
(* that wrap around the cube.                                              *)
C22_Witness ==
    /\ view # Unset
    /\ vcall = [op |-> "set", exc |-> "ValueError"]
    /\ data.shape = <<1, 2, 3>>
    /\ view.y = IntC(1)
    /\ view.z = IntC(2)

(* The last drawn coordinates are the current ones.                        *)
Drawn(v) ==
    /\ v.last_drawn_x = Whole(v.x)
    /\ v.last_drawn_y = Whole(v.y)
    /\ v.last_drawn_z = Whole(v.z)

(* C23: an assignment to x, y or z that returns sets needs_redraw; a run   *)
(* of _check_redraw with needs_redraw set leaves needs_redraw false and    *)
(* the last drawn coordinates equal to x, y, z; a run with needs_redraw    *)
(* false changes nothing; and the handler returns True, so that it stays   *)
(* scheduled.                                                              *)
C23_Redraw ==
    [][ view # Unset =>
          /\ (vcall'.op = "set" /\ vcall'.exc = "none") => view'.needs_redraw
          /\ (vcall'.op = "_check_redraw" /\ view.needs_redraw) =>
                ~view'.needs_redraw /\ Drawn(view')
          /\ (vcall'.op = "_check_redraw" /\ ~view.needs_redraw) => view' = view
          /\ vcall'.op = "_check_redraw" => view'.scheduled
      ]_vars

(* The view shows the array d: its coordinates index d, the slider spans   *)
(* d's velocity axis, and the idle handler is scheduled.                   *)
Shows(v, d) ==
    /\ InRange(v, d)
    /\ v.scale_upper = d.shape[3] - 1
    /\ v.scheduled

(* C24: when cube.data is replaced in a view that shows it and update() is *)
(* called, update() sets needs_redraw and invalidates the last drawn z,    *)
(* and the run of the idle handler that follows renders the plane of the   *)
(* new cube.data at the current z, also when z did not change.             *)
C24_Rerender ==
    (view # Unset /\ Shows(view, data)) =>
        \A a \in Replacements :
            a # data =>
                LET u == update(view, a).view
                    c == check_redraw(u, a).view
                IN  /\ u.needs_redraw
                    /\ u.last_drawn_z = -1
                    /\ c.image = image_of(a, Whole(c.z))
                    /\ c.last_drawn_z = Whole(c.z)
                    /\ c.z = u.z

(* C25: update() called on a view whose x, y, z are valid indices of the   *)
(* current cube.data leaves x, y and z at their values.                    *)
C25_UpdateKeeps ==
    [][ (view # Unset /\ InRange(view, data) /\ vcall'.op = "update") =>
          /\ Whole(view'.x) = Whole(view.x)
          /\ Whole(view'.y) = Whole(view.y)
          /\ Whole(view'.z) = Whole(view.z)
      ]_vars

(* The history h is an initial part of the history g.                      *)
Extends(g, h) == Len(g) >= Len(h) /\ \A i \in 1..Len(h) : g[i] = h[i]

(* C26 as stated: after every event of the console the position lies      *)
(* between -len(command_history) and 0, the history has not shrunk, and    *)
(* whenever the position is -j < 0 right after an Up or Down the entry     *)
(* shows command_history[-j].                                              *)
C26_ShowsAfterAnyKey ==
    [][ console' # Unset =>
          /\ 0 - Len(console'.command_history) <= console'.command_history_pos
          /\ console'.command_history_pos <= 0
          /\ console # Unset =>
                /\ Extends(console'.command_history, console.command_history)
                /\ (ccall'.op \in {"Up", "Down"} /\ console'.command_history_pos < 0) =>
                      console'.text =
                          console'.command_history[Len(console'.command_history) + 1
                                                   + console'.command_history_pos]
      ]_vars

(* C26, amended: the position lies between -len(command_history) and 0,    *)
(* the history never shrinks, and whenever an Up or Down moves the         *)
(* position to -j < 0 the entry shows command_history[-j]; an Up or Down    *)
(* that does not move the position leaves the entry's text as it is.       *)
C26_History ==
    [][ console' # Unset =>
          /\ 0 - Len(console'.command_history) <= console'.command_history_pos
          /\ console'.command_history_pos <= 0
          /\ console # Unset =>
                /\ Extends(console'.command_history, console.command_history)
                /\ ccall'.op \in {"Up", "Down"} =>
                      IF console'.command_history_pos # console.command_history_pos
                      THEN console'.command_history_pos < 0 =>
                              console'.text =
                                  console'.command_history[Len(console'.command_history) + 1
                                                           + console'.command_history_pos]
                      ELSE console' = console
      ]_vars

(* Up has moved to the older of two commands, after a command failed.      *)
C26_Witness ==
    /\ console # Unset
    /\ ccall = [op |-> "Up"]
    /\ console.command_history = <<"a", "b">>
    /\ console.command_history_pos = -2
    /\ console.text = "a"
    /\ console.first_error_line # None

(* C27: from position 0 with text t in the entry, k presses of Up          *)
(* (1 <= k <= len(command_history)) followed by d <= k presses of Down     *)
(* leave the position at -(k - d), and at position 0 with the entry        *)
(* showing t when d = k; Up at the oldest entry and Down at position 0     *)
(* change nothing.                                                         *)
C27_RoundTrip ==
    [][ (console # Unset /\ console' # Unset) =>
          /\ trip' # NoCall =>
                /\ trip'.ups >= 1 /\ trip'.ups <= Len(console'.command_history)
                /\ console'.command_history_pos = 0 - (trip'.ups - trip'.downs)
                /\ trip'.downs = trip'.ups => console'.text = trip'.text
          /\ (ccall'.op = "Up"
                /\ console.command_history_pos = 0 - Len(console.command_history)) =>
                console' = console
          /\ (ccall'.op = "Down" /\ console.command_history_pos = 0) =>
                console' = console
      ]_vars

(* With "b" typed and not entered, Up three times and Down three times.    *)
C27_Witness ==
    /\ console # Unset
    /\ trip = [text |-> "b", ups |-> 3, downs |-> 3]
    /\ ccall = [op |-> "Down"]
    /\ console.text = "b"
    /\ console.command_history_pos = 0

(* No two neighbouring entries of the history are equal.                   *)
NoRepeat(h) == \A i \in 1..(Len(h) - 1) : h[i] # h[i + 1]

(* C28: the history changes only when a command has executed without      *)
(* raising, by that command appended, and not when the command equals the  *)
(* most recent entry, so that no two adjacent entries are equal; a command *)
(* that fails to compile or raises leaves command_history,                 *)
(* command_history_pos and the entry's text unchanged; a command that      *)
(* succeeds resets the position to 0 and clears the entry.                 *)
C28_Appended ==
    [][ (console # Unset /\ console' # Unset) =>
          LET h == console.command_history
              g == console'.command_history
          IN  /\ NoRepeat(g)
              /\ g # h =>
                    /\ ccall'.op = "Enter"
                    /\ ccall'.outcome = "returned"
                    /\ g = Append(h, ccall'.cmd_str)
              /\ (ccall'.op = "Enter" /\ ccall'.outcome = "returned") =>
                    /\ ccall'.cmd_str = console.text
                    /\ (h # <<>> /\ h[Len(h)] = ccall'.cmd_str) => g = h
                    /\ (h = <<>> \/ h[Len(h)] # ccall'.cmd_str) =>
                          g = Append(h, ccall'.cmd_str)
                    /\ console'.command_history_pos = 0
                    /\ console'.text = ""
              /\ (ccall'.op = "Enter" /\ ccall'.outcome \in {"SyntaxError", "raised"}) =>
                    /\ g = h
                    /\ console'.command_history_pos = console.command_history_pos
                    /\ console'.text = console.text
      ]_vars

(* "b", recalled from the history with Up, was entered again and returned: *)
(* the history still ends with one "b".                                    *)
C28_Witness ==
    /\ console # Unset
    /\ ccall = [op |-> "Enter", cmd_str |-> "b", outcome |-> "returned"]
    /\ console.command_history = <<"a", "b">>
    /\ console.command_history_pos = 0
    /\ console.text = ""
    /\ console.command_entered = "(("
    /\ console.first_error_line = None

(* C30: whenever pressed_enter returns, sys.stdout is the process's        *)
(* standard output, whether the command returned, failed to compile or     *)
(* raised.                                                                 *)
C30_StdoutRestored ==
    [][ (console # Unset /\ ccall'.op = "Enter" /\ ccall'.outcome # "empty") =>
          sys_stdout' = "sys.__stdout__"
      ]_vars

(* The voxels a holds NaN at.                                              *)
Excluded(a) == {ix \in Idx3(a.shape) : isnan(a.v[ix])}

(* C29: within one calc_noise_dev call every pass clips the array the      *)
(* pass before left: a voxel that is NaN in the working array before a     *)
(* pass is NaN after it, whatever the noise estimate the pass clips        *)
(* against, the other voxels keep their value or become NaN, and the       *)
(* pass's estimate is the MAD of that array.                               *)
C29_Cumulative ==
    [][ (pc = "loop" /\ pc' = "loop") =>
          /\ Excluded(data_cropped) \subseteq Excluded(data_cropped')
          /\ \A ix \in Idx3(data_cropped.shape) \ Excluded(data_cropped') :
                data_cropped'.v[ix] = data_cropped.v[ix]
          /\ noise_dev_xy' = mad(data_cropped')
          /\ passes' = passes + 1
      ]_vars

(* After the second pass a voxel clipped by the first is still excluded,   *)
(* although the estimate the second pass clipped against would not have    *)
(* clipped its value.                                                      *)
C29_Witness ==
    /\ pc = "loop"
    /\ passes = 2
    /\ \E ix \in Idx3(data.shape) :
          /\ ~isnan(data.v[ix])
          /\ isnan(data_cropped.v[ix])
          /\ ~isnan(Broadcast(noise_dev, ix))
          /\ ~GreaterThan(data.v[ix], args.signal_threshold, Broadcast(noise_dev, ix))

(* C31: once an array has been handed to highlight(), it holds the values  *)
(* it was passed with after every later clear(), change of z and update(). *)
C31_MaskKept ==
    (highlighter # Unset /\ mask # Unset) => mask = passed

====
